---------------------------- MODULE Spec2Model ----------------------------
(***************************************************************************)
(* MiniLang: lowering of a Program (AST) to a bytecode Chunk by the        *)
(* IRGenerator, execution of a Chunk by the stack VM, and the Compiler     *)
(* front object that sequences the two.                                    *)
(*                                                                         *)
(* Conventions.                                                            *)
(*  - Indices into Chunk::code, m_locals and m_ip are the 0-based indices  *)
(*    of the C++ code; the element at C++ index i is element i+1 of the    *)
(*    TLA+ sequence.                                                       *)
(*  - A Value is a record with the tag and one field per alternative of    *)
(*    the std::variant.  A double is represented by the exact reduced      *)
(*    fraction num/den (den > 0); the model only uses small numbers, for   *)
(*    which double arithmetic is exact or rounds far below the precision   *)
(*    any comparison here looks at.  Signed zero is not distinguished.     *)
(*  - A wrapped size_t (m_ip after m_ip -= operand below 0) is kept as the *)
(*    negative integer n standing for 2^64 + n; it is only ever compared   *)
(*    with code.size().                                                    *)
(***************************************************************************)
EXTENDS Integers, Sequences, FiniteSets, TLC

\* ------------------------------------------------------------------------
\* Bounds of the model
\* ------------------------------------------------------------------------

\* Most fetch-decode-execute iterations followed within one interpret call.
MaxSteps == 24

\* The deepest nesting of scopes and the longest code of the walk of one compile.
MaxWalkDepth == 3
MaxWalkCode == 7

\* The longest token sequence (before the end-of-input token) handed to the
\* Parser directly.
MaxTokens == 4

\* ------------------------------------------------------------------------
\* Program constants
\* ------------------------------------------------------------------------

\* Largest value of the 8-bit operand (jump distance, loop distance).
OperandMax == 255

\* Number of values of the 8-bit operand: static_cast<uint8_t>(x) is x % 256.
OperandRange == 256

\* ------------------------------------------------------------------------
\* Values (struct Value)
\* ------------------------------------------------------------------------

RECURSIVE GCD(_, _)
GCD(a, b) == IF b = 0 THEN a ELSE GCD(b, a % b)

Abs(x) == IF x < 0 THEN -x ELSE x

\* Value(): the NIL value.
NilVal == [type |-> "NIL", b |-> FALSE, num |-> 0, den |-> 1, s |-> ""]

\* Value(bool)
BoolVal(b) == [type |-> "BOOL", b |-> b, num |-> 0, den |-> 1, s |-> ""]

\* Value(double): the fraction n/d, d # 0, reduced with a positive denominator.
NumVal(n, d) ==
    LET sn == IF d < 0 THEN -n ELSE n
        sd == Abs(d)
        g  == GCD(Abs(sn), sd)
    IN  [type |-> "NUMBER", b |-> FALSE, num |-> sn \div g, den |-> sd \div g, s |-> ""]

\* Value(std::string)
StrVal(s) == [type |-> "STRING", b |-> FALSE, num |-> 0, den |-> 1, s |-> s]

isBool(v)   == v.type = "BOOL"
isNumber(v) == v.type = "NUMBER"
isString(v) == v.type = "STRING"
isNil(v)    == v.type = "NIL"

\* double arithmetic on the fractions
NumAdd(a, b) == NumVal(a.num * b.den + b.num * a.den, a.den * b.den)
NumSub(a, b) == NumVal(a.num * b.den - b.num * a.den, a.den * b.den)
NumMul(a, b) == NumVal(a.num * b.num, a.den * b.den)
NumDiv(a, b) == NumVal(a.num * b.den, a.den * b.num)
NumNeg(a)    == NumVal(-a.num, a.den)
NumLess(a, b)    == a.num * b.den < b.num * a.den
NumGreater(a, b) == a.num * b.den > b.num * a.den
NumIsZero(a)     == a.num = 0

\* Integer part toward zero of n/d (d > 0).
Trunc(n, d) == IF n >= 0 THEN n \div d ELSE -((-n) \div d)

\* std::fmod(a, b) = a - b * trunc(a / b), b # 0
NumFmod(a, b) ==
    LET q == NumDiv(a, b)
    IN  NumSub(a, NumMul(b, NumVal(Trunc(q.num, q.den), 1)))

\* ------------------------------------------------------------------------
\* AST (include/AST.hpp).  A missing unique_ptr (no initializer, no else
\* branch, no return value) is the Null node.
\* ------------------------------------------------------------------------

NullExpr == [type |-> "Null"]
NullStmt == [type |-> "Null"]

\* A Token as far as lowering reads it: its type and its lexeme.
Tok(type, lexeme) == [type |-> type, lexeme |-> lexeme]

BinaryExpr(left, op, right) == [type |-> "Binary", left |-> left, op |-> op, right |-> right]
UnaryExpr(op, right)        == [type |-> "Unary", op |-> op, right |-> right]
LiteralExpr(value)          == [type |-> "Literal", value |-> value]
VariableExpr(name)          == [type |-> "Variable", name |-> name]
AssignExpr(name, value)     == [type |-> "Assignment", name |-> name, value |-> value]
CallExpr(callee, arguments) == [type |-> "Call", callee |-> callee, arguments |-> arguments]
GroupingExpr(expression)    == [type |-> "Grouping", expression |-> expression]

ExpressionStmt(expression)  == [type |-> "Expression", expression |-> expression]
LetStmt(name, initializer)  == [type |-> "Let", name |-> name, initializer |-> initializer]
FunctionStmt(name, params, body) ==
    [type |-> "Function", name |-> name, params |-> params, body |-> body]
IfStmt(condition, thenBranch, elseBranch) ==
    [type |-> "If", condition |-> condition, thenBranch |-> thenBranch,
     elseBranch |-> elseBranch]
WhileStmt(condition, body)  == [type |-> "While", condition |-> condition, body |-> body]
ReturnStmt(value)           == [type |-> "Return", value |-> value]
PrintStmt(expression)       == [type |-> "Print", expression |-> expression]
BlockStmt(statements)       == [type |-> "Block", statements |-> statements]

\* ------------------------------------------------------------------------
\* Lexer.  The source text is a sequence of characters, each a one-character
\* string; m_start and m_current are 0-based as in the C++.
\* ------------------------------------------------------------------------

\* struct Token.  The literal is kept as a Value (Value() for monostate).
Token(type, lexeme, line, column, literal) ==
    [type |-> type, lexeme |-> lexeme, line |-> line, column |-> column,
     literal |-> literal]

\* The '\0' that peek and peekNext return at the end of the source.
NulChar == ""

\* std::isalpha, std::isdigit and the value of a digit.
Letters ==
    {"a", "b", "c", "d", "e", "f", "g", "h", "i", "j", "k", "l", "m", "n", "o", "p", "q",
     "r", "s", "t", "u", "v", "w", "x", "y", "z", "A", "B", "C", "D", "E", "F", "G", "H",
     "I", "J", "K", "L", "M", "N", "O", "P", "Q", "R", "S", "T", "U", "V", "W", "X", "Y",
     "Z"}

Digits == {"0", "1", "2", "3", "4", "5", "6", "7", "8", "9"}

DigitValue(c) == CHOOSE d \in 0..9 : ToString(d) = c

\* static const KEYWORDS
KEYWORDS ==
    [lexeme \in {"let", "fn", "if", "else", "while", "return", "true", "false", "print"} |->
        CASE lexeme = "let"    -> "LET"
          [] lexeme = "fn"     -> "FN"
          [] lexeme = "if"     -> "IF"
          [] lexeme = "else"   -> "ELSE"
          [] lexeme = "while"  -> "WHILE"
          [] lexeme = "return" -> "RETURN"
          [] lexeme = "true"   -> "TRUE"
          [] lexeme = "false"  -> "FALSE"
          [] lexeme = "print"  -> "PRINT"]

\* Lexer(source)
LexerNew(src) ==
    [m_source |-> src, m_start |-> 0, m_current |-> 0, m_line |-> 1, m_column |-> 1,
     m_tokens |-> <<>>]

\* m_source.substr(from, count) as a string
RECURSIVE substr(_, _, _)
substr(src, from, count) ==
    IF count <= 0 \/ from >= Len(src) THEN ""
    ELSE src[from + 1] \o substr(src, from + 1, count - 1)

\* Lexer::isAtEnd
LexerIsAtEnd(lx) == lx.m_current >= Len(lx.m_source)

\* Lexer::advance, the Lexer after the call (the character returned is the one
\* peek returned before it).
LexerAdvance(lx) == [lx EXCEPT !.m_column = @ + 1, !.m_current = @ + 1]

\* Lexer::peek
LexerPeek(lx) == IF LexerIsAtEnd(lx) THEN NulChar ELSE lx.m_source[lx.m_current + 1]

\* Lexer::peekNext
peekNext(lx) ==
    IF lx.m_current + 1 >= Len(lx.m_source) THEN NulChar ELSE lx.m_source[lx.m_current + 2]

\* Lexer::match, the Lexer after the call; it returned true when m_current moved.
LexerMatch(lx, expected) ==
    IF LexerIsAtEnd(lx) \/ lx.m_source[lx.m_current + 1] # expected THEN lx
    ELSE [lx EXCEPT !.m_current = @ + 1, !.m_column = @ + 1]

\* Lexer::skipWhitespace
RECURSIVE skipWhitespace(_)
skipWhitespace(lx) ==
    IF LexerIsAtEnd(lx) THEN lx
    ELSE IF LexerPeek(lx) \in {" ", "\r", "\t"} THEN skipWhitespace(LexerAdvance(lx))
    ELSE IF LexerPeek(lx) = "\n"
    THEN skipWhitespace(LexerAdvance([lx EXCEPT !.m_line = @ + 1, !.m_column = 1]))
    ELSE lx

\* The loop of skipComment: up to the end of the line.
RECURSIVE skipLine(_)
skipLine(lx) ==
    IF ~LexerIsAtEnd(lx) /\ LexerPeek(lx) # "\n" THEN skipLine(LexerAdvance(lx)) ELSE lx

\* Lexer::skipComment
skipComment(lx) ==
    IF LexerPeek(lx) = "/" /\ peekNext(lx) = "/" THEN skipLine(lx) ELSE lx

\* Lexer::makeToken
makeToken(lx, type, literal) ==
    Token(type, substr(lx.m_source, lx.m_start, lx.m_current - lx.m_start), lx.m_line,
          lx.m_column, literal)

\* Lexer::errorToken
errorToken(lx, message) == Token("ERROR", message, lx.m_line, lx.m_column, NilVal)

\* while (peek() is one of `chars`) advance();
RECURSIVE advanceWhile(_, _)
advanceWhile(lx, chars) ==
    IF LexerPeek(lx) \in chars THEN advanceWhile(LexerAdvance(lx), chars) ELSE lx

\* What scanToken and its helpers give back: the Lexer after the call and the
\* Token returned.
Scanned(lx, token) == [lexer |-> lx, token |-> token]

\* The text of the Token being scanned: m_source.substr(m_start, m_current - m_start).
lexemeOf(lx) == substr(lx.m_source, lx.m_start, lx.m_current - lx.m_start)

\* The end of scanIdentifier, once the identifier is consumed: the keyword
\* lookup.
identifierToken(lx) ==
    IF lexemeOf(lx) \in DOMAIN KEYWORDS
    THEN Scanned(lx, makeToken(lx, KEYWORDS[lexemeOf(lx)], NilVal))
    ELSE Scanned(lx, makeToken(lx, "IDENTIFIER", NilVal))

\* Lexer::scanIdentifier
scanIdentifier(lx) == identifierToken(advanceWhile(lx, Letters \cup Digits \cup {"_"}))

\* std::stod of digits [. digits]: the number as num/den, read from position
\* `from` (0-based) up to `to` (excluded).
RECURSIVE stod(_, _, _, _, _)
stod(src, from, to, num, den) ==
    IF from >= to THEN NumVal(num, IF den = 0 THEN 1 ELSE den)
    ELSE IF src[from + 1] = "." THEN stod(src, from + 1, to, num, 1)
    ELSE stod(src, from + 1, to, num * 10 + DigitValue(src[from + 1]), den * 10)

\* The fractional part of scanNumber: a '.' followed by a digit, then digits.
scanFraction(lx) ==
    IF LexerPeek(lx) = "." /\ peekNext(lx) \in Digits
    THEN advanceWhile(LexerAdvance(lx), Digits) ELSE lx

\* The end of scanNumber: the literal is std::stod of the lexeme.
numberToken(lx) ==
    Scanned(lx, makeToken(lx, "NUMBER", stod(lx.m_source, lx.m_start, lx.m_current, 0, 0)))

\* Lexer::scanNumber
scanNumber(lx) == numberToken(scanFraction(advanceWhile(lx, Digits)))

\* The loop of scanString: up to the closing quote or the end of the source.
RECURSIVE scanStringBody(_)
scanStringBody(lx) ==
    IF LexerPeek(lx) # "\"" /\ ~LexerIsAtEnd(lx)
    THEN scanStringBody(LexerAdvance(
             IF LexerPeek(lx) = "\n" THEN [lx EXCEPT !.m_line = @ + 1, !.m_column = 1]
             ELSE lx))
    ELSE lx

\* The end of scanString, lx being the Lexer after the closing quote: the literal
\* is the text between the quotes.
stringToken(lx) ==
    Scanned(lx, makeToken(lx, "STRING",
                          StrVal(substr(lx.m_source, lx.m_start + 1,
                                        lx.m_current - lx.m_start - 2))))

\* The end of scanString, after its loop.
closeString(lx) ==
    IF LexerIsAtEnd(lx) THEN Scanned(lx, errorToken(lx, "Unterminated string"))
    ELSE stringToken(LexerAdvance(lx))

\* Lexer::scanString
scanString(lx) == closeString(scanStringBody(lx))

\* What a two-character operator gives: `matched` is the Lexer after match('=').
matchEqual(lx, matched, two, one) ==
    IF matched # lx THEN Scanned(matched, makeToken(matched, two, NilVal)) ELSE one

\* The switch of scanToken on the character c that advance returned; lx is the
\* Lexer after that advance.
scanOperator(lx, c) ==
    CASE c = "(" -> Scanned(lx, makeToken(lx, "LPAREN", NilVal))
      [] c = ")" -> Scanned(lx, makeToken(lx, "RPAREN", NilVal))
      [] c = "{" -> Scanned(lx, makeToken(lx, "LBRACE", NilVal))
      [] c = "}" -> Scanned(lx, makeToken(lx, "RBRACE", NilVal))
      [] c = "," -> Scanned(lx, makeToken(lx, "COMMA", NilVal))
      [] c = ";" -> Scanned(lx, makeToken(lx, "SEMICOLON", NilVal))
      [] c = "+" -> Scanned(lx, makeToken(lx, "PLUS", NilVal))
      [] c = "-" -> Scanned(lx, makeToken(lx, "MINUS", NilVal))
      [] c = "*" -> Scanned(lx, makeToken(lx, "STAR", NilVal))
      [] c = "/" -> Scanned(lx, makeToken(lx, "SLASH", NilVal))
      [] c = "%" -> Scanned(lx, makeToken(lx, "PERCENT", NilVal))
      [] c = "=" -> matchEqual(lx, LexerMatch(lx, "="), "EQUAL_EQUAL",
                               Scanned(lx, makeToken(lx, "EQUAL", NilVal)))
      [] c = "!" -> matchEqual(lx, LexerMatch(lx, "="), "BANG_EQUAL",
                               Scanned(lx, errorToken(lx, "Unexpected '!' without '='")))
      [] c = "<" -> matchEqual(lx, LexerMatch(lx, "="), "LESS_EQUAL",
                               Scanned(lx, makeToken(lx, "LESS", NilVal)))
      [] c = ">" -> matchEqual(lx, LexerMatch(lx, "="), "GREATER_EQUAL",
                               Scanned(lx, makeToken(lx, "GREATER", NilVal)))
      [] OTHER   -> Scanned(lx, errorToken(lx, "Unexpected character: " \o c))

\* scanToken from `m_start = m_current` on.
scanFrom(lx) ==
    IF LexerIsAtEnd(lx) THEN Scanned(lx, makeToken(lx, "EOF_TOKEN", NilVal))
    ELSE IF LexerPeek(lx) \in Letters \cup {"_"} THEN scanIdentifier(LexerAdvance(lx))
    ELSE IF LexerPeek(lx) \in Digits THEN scanNumber(LexerAdvance(lx))
    ELSE IF LexerPeek(lx) = "\"" THEN scanString(LexerAdvance(lx))
    ELSE scanOperator(LexerAdvance(lx), LexerPeek(lx))

\* m_start = m_current;
startToken(lx) == [lx EXCEPT !.m_start = lx.m_current]

\* Lexer::scanToken
scanToken(lx) == scanFrom(startToken(skipWhitespace(skipComment(skipWhitespace(lx)))))

\* The body of the loop of tokenize after scanToken: a Token of type ERROR is not
\* kept.
keepToken(scanned) ==
    IF scanned.token.type # "ERROR"
    THEN [scanned.lexer EXCEPT !.m_tokens = Append(@, scanned.token)]
    ELSE scanned.lexer

\* The loop of tokenize.
RECURSIVE tokenizeLoop(_)
tokenizeLoop(lx) ==
    IF LexerIsAtEnd(lx) THEN lx ELSE tokenizeLoop(keepToken(scanToken(startToken(lx))))

\* The end of tokenize: the EOF_TOKEN appended.
endOfTokens(lx) == Append(lx.m_tokens, makeToken(lx, "EOF_TOKEN", NilVal))

\* Lexer::tokenize, the tokens returned.
tokenize(src) == endOfTokens(tokenizeLoop(LexerNew(src)))

\* ------------------------------------------------------------------------
\* Parser.  The Parser record holds m_tokens and m_current (0-based), the node
\* the latest parsing function returned, and, once a ParseError is thrown, the
\* error on its way up to the catch in parse.
\* ------------------------------------------------------------------------

\* Parser(tokens)
ParserNew(tokens) ==
    [m_tokens |-> tokens, m_current |-> 0, node |-> NullExpr,
     thrown |-> FALSE, message |-> "", line |-> 0]

\* Parser::peek
ParserPeek(p) == p.m_tokens[p.m_current + 1]

\* Parser::previous
previous(p) == p.m_tokens[p.m_current]

\* Parser::isAtEnd
ParserIsAtEnd(p) == ParserPeek(p).type = "EOF_TOKEN"

\* Parser::check
check(p, type) == IF ParserIsAtEnd(p) THEN FALSE ELSE ParserPeek(p).type = type

\* Parser::advance, the Parser after the call.
ParserAdvance(p) == IF ~ParserIsAtEnd(p) THEN [p EXCEPT !.m_current = @ + 1] ELSE p

\* Parser::match, the value returned.
matches(p, types) == \E type \in types : check(p, type)

\* Parser::match, the Parser after the call.
ParserMatch(p, types) == IF matches(p, types) THEN ParserAdvance(p) ELSE p

\* throw error(token, message)
ParserError(p, token, message) ==
    [p EXCEPT !.thrown = TRUE, !.message = message, !.line = token.line]

\* Parser::consume
consume(p, type, message) ==
    IF check(p, type) THEN ParserAdvance(p) ELSE ParserError(p, ParserPeek(p), message)

\* return node;
Returning(p, node) == [p EXCEPT !.node = node]

\* The Token as the AST keeps it.
TokOf(token) == Tok(token.type, token.lexeme)

\* Sequencing of C++ statements under exceptions: Rest is what follows the call
\* that leaves the Parser in state `first`, and is skipped when that call threw.
Try(first, Rest(_)) == IF first.thrown THEN first ELSE Rest(first)

\* The loop of synchronize
RECURSIVE synchronizeLoop(_)
synchronizeLoop(p) ==
    IF ParserIsAtEnd(p) THEN p
    ELSE IF previous(p).type = "SEMICOLON" THEN p
    ELSE IF ParserPeek(p).type \in {"FN", "LET", "IF", "WHILE", "RETURN", "PRINT"} THEN p
    ELSE synchronizeLoop(ParserAdvance(p))

\* Parser::synchronize, entered from the catch of parse.
synchronize(p) ==
    synchronizeLoop(ParserAdvance([p EXCEPT !.thrown = FALSE, !.message = "", !.line = 0]))

\* Variant of binaryOperators in which the additive operators bind tighter than
\* the multiplicative ones.
binaryOperatorsSwapped(level) ==
    CASE level = "logicalOr"  -> {"OR"}
      [] level = "logicalAnd" -> {"AND"}
      [] level = "equality"   -> {"BANG_EQUAL", "EQUAL_EQUAL"}
      [] level = "comparison" -> {"GREATER", "GREATER_EQUAL", "LESS", "LESS_EQUAL"}
      [] level = "term"       -> {"SLASH", "STAR", "PERCENT"}
      [] level = "factor"     -> {"MINUS", "PLUS"}

\* The token types each binary level matches in its while loop.
binaryOperators(level) ==
    CASE level = "logicalOr"  -> {"OR"}
      [] level = "logicalAnd" -> {"AND"}
      [] level = "equality"   -> {"BANG_EQUAL", "EQUAL_EQUAL"}
      [] level = "comparison" -> {"GREATER", "GREATER_EQUAL", "LESS", "LESS_EQUAL"}
      [] level = "term"       -> {"MINUS", "PLUS"}
      [] level = "factor"     -> {"SLASH", "STAR", "PERCENT"}

RECURSIVE Parse(_, _)

\* Parser::primary
primary(p) ==
    IF matches(p, {"FALSE"}) THEN Returning(ParserAdvance(p), LiteralExpr(BoolVal(FALSE)))
    ELSE IF matches(p, {"TRUE"}) THEN Returning(ParserAdvance(p), LiteralExpr(BoolVal(TRUE)))
    ELSE IF matches(p, {"NUMBER"})
    THEN Returning(ParserAdvance(p),
                   LiteralExpr(IF isNumber(ParserPeek(p).literal) THEN ParserPeek(p).literal
                               ELSE NumVal(0, 1)))
    ELSE IF matches(p, {"STRING"})
    THEN Returning(ParserAdvance(p),
                   LiteralExpr(IF isString(ParserPeek(p).literal) THEN ParserPeek(p).literal
                               ELSE StrVal("")))
    ELSE IF matches(p, {"LPAREN"})
    THEN Try(Parse("expression", ParserAdvance(p)), LAMBDA p1 :
         Try(consume(p1, "RPAREN", "Expect ')' after expression."), LAMBDA p2 :
         Returning(p2, GroupingExpr(p1.node))))
    ELSE IF matches(p, {"IDENTIFIER"})
    THEN Returning(ParserAdvance(p), VariableExpr(ParserPeek(p).lexeme))
    ELSE ParserError(p, ParserPeek(p), "Expect expression.")

\* The do-while of finishCall; p.node is the argument list so far.
callArguments(p) ==
    IF Len(p.node) >= 255
    THEN ParserError(p, ParserPeek(p), "Can't have more than 255 arguments.")
    ELSE Try(Parse("expression", p), LAMBDA p1 :
         IF matches(p1, {"COMMA"})
         THEN Parse("callArguments", Returning(ParserAdvance(p1), Append(p.node, p1.node)))
         ELSE Returning(p1, Append(p.node, p1.node)))

\* Parser::finishCall; p.node is the callee.
finishCall(p) ==
    Try(IF ~check(p, "RPAREN") THEN Parse("callArguments", Returning(p, <<>>))
        ELSE Returning(p, <<>>), LAMBDA p1 :
    Try(consume(p1, "RPAREN", "Expect ')' after arguments."), LAMBDA p2 :
    Returning(p2, CallExpr(p.node, p1.node))))

\* The while (true) of call
callLoop(p) ==
    IF matches(p, {"LPAREN"})
    THEN Try(Parse("finishCall", ParserAdvance(p)), LAMBDA p1 : Parse("callLoop", p1))
    ELSE p

\* Parser::call
call(p) == Try(Parse("primary", p), LAMBDA p1 : Parse("callLoop", p1))

\* Parser::unary
unary(p) ==
    IF matches(p, {"BANG", "MINUS"})
    THEN Try(Parse("unary", ParserAdvance(p)), LAMBDA p1 :
         Returning(p1, UnaryExpr(TokOf(ParserPeek(p)), p1.node)))
    ELSE Parse("call", p)

\* The body of the while loop of a binary level: p is the Parser at the
\* operator, with the expression so far in p.node; right is the Parser after the
\* right operand.
binaryOf(p, right) ==
    Returning(right, BinaryExpr(p.node, TokOf(ParserPeek(p)), right.node))

\* The while loop of Parser::factor; p.node is the expression so far.
factorLoop(p) ==
    IF matches(p, binaryOperators("factor"))
    THEN Try(Parse("unary", ParserAdvance(p)), LAMBDA p1 :
         Parse("factorLoop", binaryOf(p, p1)))
    ELSE p

\* Parser::factor
factor(p) == Try(Parse("unary", p), LAMBDA p1 : Parse("factorLoop", p1))

\* The while loop of Parser::term; p.node is the expression so far.
termLoop(p) ==
    IF matches(p, binaryOperators("term"))
    THEN Try(Parse("factor", ParserAdvance(p)), LAMBDA p1 :
         Parse("termLoop", binaryOf(p, p1)))
    ELSE p

\* Parser::term
term(p) == Try(Parse("factor", p), LAMBDA p1 : Parse("termLoop", p1))

\* The while loop of Parser::comparison; p.node is the expression so far.
comparisonLoop(p) ==
    IF matches(p, binaryOperators("comparison"))
    THEN Try(Parse("term", ParserAdvance(p)), LAMBDA p1 :
         Parse("comparisonLoop", binaryOf(p, p1)))
    ELSE p

\* Parser::comparison
comparison(p) == Try(Parse("term", p), LAMBDA p1 : Parse("comparisonLoop", p1))

\* The while loop of Parser::equality; p.node is the expression so far.
equalityLoop(p) ==
    IF matches(p, binaryOperators("equality"))
    THEN Try(Parse("comparison", ParserAdvance(p)), LAMBDA p1 :
         Parse("equalityLoop", binaryOf(p, p1)))
    ELSE p

\* Parser::equality
equality(p) == Try(Parse("comparison", p), LAMBDA p1 : Parse("equalityLoop", p1))

\* The while loop of Parser::logicalAnd; p.node is the expression so far.
logicalAndLoop(p) ==
    IF matches(p, binaryOperators("logicalAnd"))
    THEN Try(Parse("equality", ParserAdvance(p)), LAMBDA p1 :
         Parse("logicalAndLoop", binaryOf(p, p1)))
    ELSE p

\* Parser::logicalAnd
logicalAnd(p) == Try(Parse("equality", p), LAMBDA p1 : Parse("logicalAndLoop", p1))

\* The while loop of Parser::logicalOr; p.node is the expression so far.
logicalOrLoop(p) ==
    IF matches(p, binaryOperators("logicalOr"))
    THEN Try(Parse("logicalAnd", ParserAdvance(p)), LAMBDA p1 :
         Parse("logicalOrLoop", binaryOf(p, p1)))
    ELSE p

\* Parser::logicalOr
logicalOr(p) == Try(Parse("logicalAnd", p), LAMBDA p1 : Parse("logicalOrLoop", p1))

\* Variant of assignment that also accepts a parenthesized variable as target.
assignmentThroughGrouping(p) ==
    Try(Parse("logicalOr", p), LAMBDA p1 :
    IF matches(p1, {"EQUAL"})
    THEN Try(Parse("assignment", ParserAdvance(p1)), LAMBDA p2 :
         IF p1.node.type = "Variable"
         THEN Returning(p2, AssignExpr(p1.node.name, p2.node))
         ELSE IF p1.node.type = "Grouping" /\ p1.node.expression.type = "Variable"
         THEN Returning(p2, AssignExpr(p1.node.expression.name, p2.node))
         ELSE ParserError(p2, ParserPeek(p1), "Invalid assignment target."))
    ELSE p1)

\* Parser::assignment
assignment(p) ==
    Try(Parse("logicalOr", p), LAMBDA p1 :
    IF matches(p1, {"EQUAL"})
    THEN Try(Parse("assignment", ParserAdvance(p1)), LAMBDA p2 :
         IF p1.node.type = "Variable"
         THEN Returning(p2, AssignExpr(p1.node.name, p2.node))
         ELSE ParserError(p2, ParserPeek(p1), "Invalid assignment target."))
    ELSE p1)

\* Parser::expression
expression(p) == Parse("assignment", p)

\* Parser::expressionStatement
expressionStatement(p) ==
    Try(Parse("expression", p), LAMBDA p1 :
    Try(consume(p1, "SEMICOLON", "Expect ';' after expression."), LAMBDA p2 :
    Returning(p2, ExpressionStmt(p1.node))))

\* The while loop of blockStatement and of functionDeclaration; p.node is the
\* statement list so far.
declarations(p) ==
    IF ~check(p, "RBRACE") /\ ~ParserIsAtEnd(p)
    THEN Try(Parse("declaration", p), LAMBDA p1 :
         Parse("declarations", Returning(p1, Append(p.node, p1.node))))
    ELSE p

\* Parser::blockStatement
blockStatement(p) ==
    Try(Parse("declarations", Returning(p, <<>>)), LAMBDA p1 :
    Try(consume(p1, "RBRACE", "Expect '}' after block."), LAMBDA p2 :
    Returning(p2, BlockStmt(p1.node))))

\* Parser::printStatement
printStatement(p) ==
    Try(Parse("expression", p), LAMBDA p1 :
    Try(consume(p1, "SEMICOLON", "Expect ';' after value."), LAMBDA p2 :
    Returning(p2, PrintStmt(p1.node))))

\* Parser::returnStatement
returnStatement(p) ==
    Try(IF ~check(p, "SEMICOLON") THEN Parse("expression", p)
        ELSE Returning(p, NullExpr), LAMBDA p1 :
    Try(consume(p1, "SEMICOLON", "Expect ';' after return value."), LAMBDA p2 :
    Returning(p2, ReturnStmt(p1.node))))

\* Parser::whileStatement
whileStatement(p) ==
    Try(consume(p, "LPAREN", "Expect '(' after 'while'."), LAMBDA p1 :
    Try(Parse("expression", p1), LAMBDA p2 :
    Try(consume(p2, "RPAREN", "Expect ')' after while condition."), LAMBDA p3 :
    Try(Parse("statement", p3), LAMBDA p4 :
    Returning(p4, WhileStmt(p2.node, p4.node))))))

\* Parser::ifStatement
ifStatement(p) ==
    Try(consume(p, "LPAREN", "Expect '(' after 'if'."), LAMBDA p1 :
    Try(Parse("expression", p1), LAMBDA p2 :
    Try(consume(p2, "RPAREN", "Expect ')' after if condition."), LAMBDA p3 :
    Try(Parse("statement", p3), LAMBDA p4 :
    Try(IF matches(p4, {"ELSE"}) THEN Parse("statement", ParserAdvance(p4))
        ELSE Returning(p4, NullStmt), LAMBDA p5 :
    Returning(p5, IfStmt(p2.node, p4.node, p5.node)))))))

\* Parser::statement
statement(p) ==
    IF matches(p, {"IF"}) THEN Parse("ifStatement", ParserAdvance(p))
    ELSE IF matches(p, {"WHILE"}) THEN Parse("whileStatement", ParserAdvance(p))
    ELSE IF matches(p, {"RETURN"}) THEN Parse("returnStatement", ParserAdvance(p))
    ELSE IF matches(p, {"PRINT"}) THEN Parse("printStatement", ParserAdvance(p))
    ELSE IF matches(p, {"LBRACE"}) THEN Parse("blockStatement", ParserAdvance(p))
    ELSE Parse("expressionStatement", p)

\* The do-while of functionDeclaration; p.node is the parameter list so far.
parameters(p) ==
    IF Len(p.node) >= 255
    THEN ParserError(p, ParserPeek(p), "Can't have more than 255 parameters.")
    ELSE Try(consume(p, "IDENTIFIER", "Expect parameter name."), LAMBDA p1 :
         IF matches(p1, {"COMMA"})
         THEN Parse("parameters",
                    Returning(ParserAdvance(p1), Append(p.node, previous(p1).lexeme)))
         ELSE Returning(p1, Append(p.node, previous(p1).lexeme)))

\* Parser::functionDeclaration
functionDeclaration(p) ==
    Try(consume(p, "IDENTIFIER", "Expect function name after 'fn'."), LAMBDA p1 :
    Try(consume(p1, "LPAREN", "Expect '(' after function name."), LAMBDA p2 :
    Try(IF ~check(p2, "RPAREN") THEN Parse("parameters", Returning(p2, <<>>))
        ELSE Returning(p2, <<>>), LAMBDA p3 :
    Try(consume(p3, "RPAREN", "Expect ')' after parameters."), LAMBDA p4 :
    Try(consume(p4, "LBRACE", "Expect '{' before function body."), LAMBDA p5 :
    Try(Parse("declarations", Returning(p5, <<>>)), LAMBDA p6 :
    Try(consume(p6, "RBRACE", "Expect '}' after function body."), LAMBDA p7 :
    Returning(p7, FunctionStmt(previous(p1).lexeme, p3.node, p6.node)))))))))

\* Parser::letDeclaration
letDeclaration(p) ==
    Try(consume(p, "IDENTIFIER", "Expect variable name after 'let'."), LAMBDA p1 :
    Try(IF matches(p1, {"EQUAL"}) THEN Parse("expression", ParserAdvance(p1))
        ELSE Returning(p1, NullExpr), LAMBDA p2 :
    Try(consume(p2, "SEMICOLON", "Expect ';' after variable declaration."), LAMBDA p3 :
    Returning(p3, LetStmt(previous(p1).lexeme, p2.node)))))

\* Parser::declaration
declaration(p) ==
    IF matches(p, {"LET"}) THEN Parse("letDeclaration", ParserAdvance(p))
    ELSE IF matches(p, {"FN"}) THEN Parse("functionDeclaration", ParserAdvance(p))
    ELSE Parse("statement", p)

\* The call of the parsing function named `rule` (the functions of the Parser
\* call one another recursively).
Parse(rule, p) ==
    CASE rule = "primary" -> primary(p)
      [] rule = "callArguments" -> callArguments(p)
      [] rule = "finishCall" -> finishCall(p)
      [] rule = "callLoop" -> callLoop(p)
      [] rule = "call" -> call(p)
      [] rule = "unary" -> unary(p)
      [] rule = "factorLoop" -> factorLoop(p)
      [] rule = "factor" -> factor(p)
      [] rule = "termLoop" -> termLoop(p)
      [] rule = "term" -> term(p)
      [] rule = "comparisonLoop" -> comparisonLoop(p)
      [] rule = "comparison" -> comparison(p)
      [] rule = "equalityLoop" -> equalityLoop(p)
      [] rule = "equality" -> equality(p)
      [] rule = "logicalAndLoop" -> logicalAndLoop(p)
      [] rule = "logicalAnd" -> logicalAnd(p)
      [] rule = "logicalOrLoop" -> logicalOrLoop(p)
      [] rule = "logicalOr" -> logicalOr(p)
      [] rule = "assignment" -> assignment(p)
      [] rule = "expression" -> expression(p)
      [] rule = "expressionStatement" -> expressionStatement(p)
      [] rule = "declarations" -> declarations(p)
      [] rule = "blockStatement" -> blockStatement(p)
      [] rule = "printStatement" -> printStatement(p)
      [] rule = "returnStatement" -> returnStatement(p)
      [] rule = "whileStatement" -> whileStatement(p)
      [] rule = "ifStatement" -> ifStatement(p)
      [] rule = "statement" -> statement(p)
      [] rule = "parameters" -> parameters(p)
      [] rule = "functionDeclaration" -> functionDeclaration(p)
      [] rule = "letDeclaration" -> letDeclaration(p)
      [] rule = "declaration" -> declaration(p)

\* What parse gives back: the Program returned and the lines written to
\* std::cerr, one per ParseError caught.
Parsed(program, errors) == [program |-> program, errors |-> errors]

\* Variant of the catch clause of parse that does not call synchronize.
caughtWithoutSynchronize(d) == [d EXCEPT !.thrown = FALSE, !.message = "", !.line = 0]

\* One iteration of the loop of parse, the Parser after it: the try block left
\* the Parser as d, and the catch clause synchronizes when it threw.
caught(d) == IF d.thrown THEN synchronize(d) ELSE d

\* The loop of parse, after the call of declaration that left the Parser as d.
RECURSIVE parseLoop(_, _, _)
parseNext(d, program, errors) ==
    IF d.thrown
    THEN parseLoop(synchronize(d), program,
                   Append(errors, "[Line " \o ToString(d.line) \o "] Parse Error: "
                                      \o d.message))
    ELSE parseLoop(d, Append(program, d.node), errors)

parseLoop(p, program, errors) ==
    IF ParserIsAtEnd(p) THEN Parsed(program, errors)
    ELSE parseNext(declaration(p), program, errors)

\* Parser::parse
parse(tokens) == parseLoop(ParserNew(tokens), <<>>, <<>>)

\* ------------------------------------------------------------------------
\* Chunk and Instruction (IRGenerator.hpp)
\* ------------------------------------------------------------------------

Instruction(opcode, operand) == [opcode |-> opcode, operand |-> operand]

\* Chunk(): no code, no constants.  The lines array (always 0 here) is left out.
EmptyChunk == [code |-> <<>>, constants |-> <<>>]

\* Chunk::addConstant: the pool after the push; the index returned is its size - 1.
addConstant(chunk, value) == [chunk EXCEPT !.constants = Append(@, value)]

\* Chunk::write
write(chunk, op, operand) == [chunk EXCEPT !.code = Append(@, Instruction(op, operand))]

\* Chunk::writeConstant: the index is cast to uint8_t.
writeConstant(chunk, value) ==
    LET c     == addConstant(chunk, value)
        index == Len(c.constants) - 1
    IN  write(c, "OP_CONSTANT", index % OperandRange)

\* ------------------------------------------------------------------------
\* IRGenerator
\* ------------------------------------------------------------------------

\* IRGenerator(): the state of a newly constructed generator.
IRGeneratorNew ==
    [m_chunk |-> EmptyChunk, m_locals |-> <<>>, m_scopeDepth |-> 0,
     m_hadError |-> FALSE, m_error |-> ""]

\* IRGenerator::error
error(g, message) == [g EXCEPT !.m_hadError = TRUE, !.m_error = message]

\* IRGenerator::emitByte
emitByte(g, op, operand) == [g EXCEPT !.m_chunk = write(@, op, operand)]

\* IRGenerator::emitJump: the placeholder operand is 255.
emitJump(g, op) == [g EXCEPT !.m_chunk = write(@, op, OperandMax)]

\* IRGenerator::emitLoop
emitLoop(g, loopStart) ==
    LET offset == Len(g.m_chunk.code) - loopStart
    IN  IF offset > OperandMax
        THEN error(g, "Loop body too large.")
        ELSE [g EXCEPT !.m_chunk = write(@, "OP_LOOP", offset)]

\* Variant of patchJump that rejects a distance of exactly 255.
patchJumpBelowMax(g, offset) ==
    LET jump == Len(g.m_chunk.code) - 1 - offset
    IN  IF jump >= OperandMax
        THEN error(g, "Jump too far.")
        ELSE [g EXCEPT !.m_chunk.code[offset + 1].operand = jump]

\* IRGenerator::patchJump
patchJump(g, offset) ==
    LET jump == Len(g.m_chunk.code) - 1 - offset
    IN  IF jump > OperandMax
        THEN error(g, "Jump too far.")
        ELSE [g EXCEPT !.m_chunk.code[offset + 1].operand = jump]

\* IRGenerator::beginScope
beginScope(g) == [g EXCEPT !.m_scopeDepth = @ + 1]

\* The loop of endScope: pop the locals deeper than the scope depth.
RECURSIVE popLocals(_)
popLocals(g) ==
    IF g.m_locals # <<>> /\ g.m_locals[Len(g.m_locals)].depth > g.m_scopeDepth
    THEN popLocals([emitByte(g, "OP_POP", 0) EXCEPT
                        !.m_locals = SubSeq(@, 1, Len(@) - 1)])
    ELSE g

\* Variant of endScope that also pops the locals of the scope it returns to.
RECURSIVE popLocalsInclusive(_)
popLocalsInclusive(g) ==
    IF g.m_locals # <<>> /\ g.m_locals[Len(g.m_locals)].depth >= g.m_scopeDepth
    THEN popLocalsInclusive([emitByte(g, "OP_POP", 0) EXCEPT
                                 !.m_locals = SubSeq(@, 1, Len(@) - 1)])
    ELSE g

endScopeInclusive(g) == popLocalsInclusive([g EXCEPT !.m_scopeDepth = @ - 1])

\* IRGenerator::endScope
endScope(g) == popLocals([g EXCEPT !.m_scopeDepth = @ - 1])

\* The loop of declareVariable: does a local of the current depth, met before
\* any local of another depth on the way back from the end, have this name?
RECURSIVE declaredInScope(_, _, _, _)
declaredInScope(locals, i, depth, name) ==
    IF i = 0 THEN FALSE
    ELSE IF locals[i].depth # depth THEN FALSE
    ELSE IF locals[i].name = name THEN TRUE
    ELSE declaredInScope(locals, i - 1, depth, name)

\* IRGenerator::declareVariable
declareVariable(g, name) ==
    IF g.m_scopeDepth = 0 THEN g
    ELSE IF declaredInScope(g.m_locals, Len(g.m_locals), g.m_scopeDepth, name)
    THEN error(g, "Variable '" \o name \o "' already declared in this scope.")
    ELSE [g EXCEPT !.m_locals =
              Append(@, [name |-> name, depth |-> g.m_scopeDepth, isCaptured |-> FALSE])]

\* The loop of resolveLocal, from C++ index i down to 0.
RECURSIVE resolveFrom(_, _, _)
resolveFrom(locals, i, name) ==
    IF i < 0 THEN -1
    ELSE IF locals[i + 1].name = name THEN i
    ELSE resolveFrom(locals, i - 1, name)

\* IRGenerator::resolveLocal: the index of the last local with this name, or -1.
resolveLocal(g, name) == resolveFrom(g.m_locals, Len(g.m_locals) - 1, name)

\* IRGenerator::markInitialized
markInitialized(g) ==
    IF g.m_locals = <<>> THEN g
    ELSE [g EXCEPT !.m_locals[Len(g.m_locals)].depth = g.m_scopeDepth]

\* Sequencing of C++ statements: Rest is what follows the statement that
\* leaves the generator in state `first`.  The value is Rest(first); the test
\* only has `first` computed before Rest is, as in the C++.
After(first, Rest(_)) == IF first.m_hadError \in BOOLEAN THEN Rest(first) ELSE Rest(first)

RECURSIVE compileExpr(_, _), compileArguments(_, _, _), compileStmt(_, _),
          compileStatements(_, _, _)

\* The switch of compileBinaryExpr, after the two operands are lowered.
emitBinaryOperator(g, op) ==
    CASE op.type = "PLUS"          -> emitByte(g, "OP_ADD", 0)
      [] op.type = "MINUS"         -> emitByte(g, "OP_SUBTRACT", 0)
      [] op.type = "STAR"          -> emitByte(g, "OP_MULTIPLY", 0)
      [] op.type = "SLASH"         -> emitByte(g, "OP_DIVIDE", 0)
      [] op.type = "PERCENT"       -> emitByte(g, "OP_MODULO", 0)
      [] op.type = "EQUAL_EQUAL"   -> emitByte(g, "OP_EQUAL", 0)
      [] op.type = "BANG_EQUAL"    -> emitByte(emitByte(g, "OP_EQUAL", 0), "OP_NOT", 0)
      [] op.type = "LESS"          -> emitByte(g, "OP_LESS", 0)
      [] op.type = "LESS_EQUAL"    -> emitByte(emitByte(g, "OP_GREATER", 0), "OP_NOT", 0)
      [] op.type = "GREATER"       -> emitByte(g, "OP_GREATER", 0)
      [] op.type = "GREATER_EQUAL" -> emitByte(emitByte(g, "OP_LESS", 0), "OP_NOT", 0)
      [] op.type = "AND"           -> emitByte(g, "OP_AND", 0)
      [] op.type = "OR"            -> emitByte(g, "OP_OR", 0)
      [] OTHER                     -> error(g, "Unknown binary operator: " \o op.lexeme)

\* Variant of compileBinaryExpr that lowers the right operand before the left.
compileBinaryExprRightFirst(g, expr) ==
    After(compileExpr(g, expr.right), LAMBDA g1 :
    After(compileExpr(g1, expr.left), LAMBDA g2 :
    emitBinaryOperator(g2, expr.op)))

\* IRGenerator::compileBinaryExpr
compileBinaryExpr(g, expr) ==
    After(compileExpr(g, expr.left), LAMBDA g1 :
    After(compileExpr(g1, expr.right), LAMBDA g2 :
    emitBinaryOperator(g2, expr.op)))

\* The switch of compileUnaryExpr, after the operand is lowered.
emitUnaryOperator(g, op) ==
    CASE op.type = "MINUS" -> emitByte(g, "OP_NEGATE", 0)
      [] op.type = "BANG"  -> emitByte(g, "OP_NOT", 0)
      [] OTHER             -> error(g, "Unknown unary operator: " \o op.lexeme)

\* IRGenerator::compileUnaryExpr
compileUnaryExpr(g, expr) ==
    After(compileExpr(g, expr.right), LAMBDA g1 :
    emitUnaryOperator(g1, expr.op))

\* IRGenerator::compileLiteralExpr
compileLiteralExpr(g, expr) ==
    IF isNumber(expr.value) \/ isString(expr.value)
    THEN [g EXCEPT !.m_chunk = writeConstant(@, expr.value)]
    ELSE IF isBool(expr.value)
    THEN emitByte(g, IF expr.value.b THEN "OP_TRUE" ELSE "OP_FALSE", 0)
    ELSE emitByte(g, "OP_NIL", 0)

\* The tail of compileVariableExpr and of compileAssignExpr: the instruction for
\* the resolved index, or the error.
emitLocal(g, op, local, name) ==
    IF local # -1
    THEN emitByte(g, op, local % OperandRange)
    ELSE error(g, "Undefined variable: " \o name)

\* IRGenerator::compileVariableExpr
compileVariableExpr(g, expr) ==
    emitLocal(g, "OP_GET_LOCAL", resolveLocal(g, expr.name), expr.name)

\* IRGenerator::compileAssignExpr
compileAssignExpr(g, expr) ==
    After(compileExpr(g, expr.value), LAMBDA g1 :
    emitLocal(g1, "OP_SET_LOCAL", resolveLocal(g1, expr.name), expr.name))

\* The argument loop of compileCallExpr, from argument i on.
compileArguments(g, arguments, i) ==
    IF i > Len(arguments) THEN g
    ELSE After(compileExpr(g, arguments[i]), LAMBDA g1 :
         compileArguments(g1, arguments, i + 1))

\* IRGenerator::compileCallExpr
compileCallExpr(g, expr) ==
    After(compileExpr(g, expr.callee), LAMBDA g1 :
    After(compileArguments(g1, expr.arguments, 1), LAMBDA g2 :
    emitByte(g2, "OP_CALL", Len(expr.arguments) % OperandRange)))

\* IRGenerator::compileGroupingExpr
compileGroupingExpr(g, expr) == compileExpr(g, expr.expression)

\* IRGenerator::compileExpr
compileExpr(g, expr) ==
    CASE expr.type = "Null"       -> emitByte(g, "OP_NIL", 0)
      [] expr.type = "Binary"     -> compileBinaryExpr(g, expr)
      [] expr.type = "Unary"      -> compileUnaryExpr(g, expr)
      [] expr.type = "Literal"    -> compileLiteralExpr(g, expr)
      [] expr.type = "Variable"   -> compileVariableExpr(g, expr)
      [] expr.type = "Assignment" -> compileAssignExpr(g, expr)
      [] expr.type = "Call"       -> compileCallExpr(g, expr)
      [] expr.type = "Grouping"   -> compileGroupingExpr(g, expr)

\* IRGenerator::compileExpressionStmt
compileExpressionStmt(g, stmt) ==
    After(compileExpr(g, stmt.expression), LAMBDA g1 :
    emitByte(g1, "OP_POP", 0))

\* IRGenerator::compileLetStmt (compileExpr of a missing initializer emits OP_NIL,
\* as the else branch does)
compileLetStmt(g, stmt) ==
    After(declareVariable(g, stmt.name), LAMBDA g1 :
    After(compileExpr(g1, stmt.initializer), LAMBDA g2 :
    markInitialized(g2)))

\* IRGenerator::compileFunctionStmt: the body is not lowered.
compileFunctionStmt(g, stmt) ==
    After(declareVariable(g, stmt.name), LAMBDA g1 :
    After(markInitialized(g1), LAMBDA g2 :
    emitByte(g2, "OP_NIL", 0)))

\* IRGenerator::compileIfStmt: thenJump and elseJump are the C++ indices of the
\* two jump instructions.
compileIfStmt(g, stmt) ==
    After(compileExpr(g, stmt.condition), LAMBDA g0 :
    After(emitJump(g0, "OP_JUMP_IF_FALSE"), LAMBDA g1 :
    After(compileStmt(g1, stmt.thenBranch), LAMBDA g2 :
    After(emitJump(g2, "OP_JUMP"), LAMBDA g3 :
    After(patchJump(g3, Len(g1.m_chunk.code) - 1), LAMBDA g4 :
    After(IF stmt.elseBranch.type # "Null"
          THEN compileStmt(g4, stmt.elseBranch) ELSE g4, LAMBDA g5 :
    patchJump(g5, Len(g3.m_chunk.code) - 1)))))))

\* IRGenerator::compileWhileStmt: loopStart is the size of the code before the
\* condition, exitJump the C++ index of the jump instruction.
compileWhileStmt(g, stmt) ==
    After(compileExpr(g, stmt.condition), LAMBDA g0 :
    After(emitJump(g0, "OP_JUMP_IF_FALSE"), LAMBDA g1 :
    After(compileStmt(g1, stmt.body), LAMBDA g2 :
    After(emitLoop(g2, Len(g.m_chunk.code)), LAMBDA g3 :
    patchJump(g3, Len(g1.m_chunk.code) - 1)))))

\* IRGenerator::compileReturnStmt
compileReturnStmt(g, stmt) ==
    After(compileExpr(g, stmt.value), LAMBDA g1 :
    emitByte(g1, "OP_RETURN", 0))

\* IRGenerator::compilePrintStmt
compilePrintStmt(g, stmt) ==
    After(compileExpr(g, stmt.expression), LAMBDA g1 :
    emitByte(g1, "OP_PRINT", 0))

\* The statement loop of compileBlockStmt, from statement i on.
compileStatements(g, statements, i) ==
    IF i > Len(statements) THEN g
    ELSE After(compileStmt(g, statements[i]), LAMBDA g1 :
         compileStatements(g1, statements, i + 1))

\* IRGenerator::compileBlockStmt
compileBlockStmt(g, stmt) ==
    After(beginScope(g), LAMBDA g1 :
    After(compileStatements(g1, stmt.statements, 1), LAMBDA g2 :
    endScope(g2)))

\* IRGenerator::compileStmt
compileStmt(g, stmt) ==
    CASE stmt.type = "Null"       -> g
      [] stmt.type = "Expression" -> compileExpressionStmt(g, stmt)
      [] stmt.type = "Let"        -> compileLetStmt(g, stmt)
      [] stmt.type = "Function"   -> compileFunctionStmt(g, stmt)
      [] stmt.type = "If"         -> compileIfStmt(g, stmt)
      [] stmt.type = "While"      -> compileWhileStmt(g, stmt)
      [] stmt.type = "Return"     -> compileReturnStmt(g, stmt)
      [] stmt.type = "Print"      -> compilePrintStmt(g, stmt)
      [] stmt.type = "Block"      -> compileBlockStmt(g, stmt)

\* Variant of the statement loop of compile that does not return at a
\* statement that leaves the error flag set.
RECURSIVE compileLoopToEnd(_, _, _)
compileLoopToEnd(g, program, i) ==
    IF i > Len(program)
    THEN emitByte(endScope(g), "OP_RETURN", 0)
    ELSE After(compileStmt(g, program[i]), LAMBDA g1 :
         compileLoopToEnd(g1, program, i + 1))

\* The statement loop of compile, from top-level statement i on: it returns at
\* the first statement that leaves the error flag set, without endScope and
\* without the final OP_RETURN.
RECURSIVE compileLoop(_, _, _)
compileLoop(g, program, i) ==
    IF i > Len(program)
    THEN emitByte(endScope(g), "OP_RETURN", 0)
    ELSE After(compileStmt(g, program[i]), LAMBDA g1 :
         IF g1.m_hadError THEN g1 ELSE compileLoop(g1, program, i + 1))

\* Variant of compile that leaves out the final OP_RETURN.
compileWithoutReturn(g, program) ==
    After(compileLoop(beginScope([g EXCEPT !.m_hadError = FALSE, !.m_error = "",
                                           !.m_chunk = EmptyChunk, !.m_locals = <<>>,
                                           !.m_scopeDepth = 0]),
                      program, 1), LAMBDA g1 :
    IF g1.m_hadError THEN g1
    ELSE [g1 EXCEPT !.m_chunk.code = SubSeq(@, 1, Len(@) - 1)])

\* IRGenerator::compile: the generator after the call; the Chunk returned is
\* its m_chunk.
compile(g, program) ==
    compileLoop(beginScope([g EXCEPT !.m_hadError = FALSE, !.m_error = "",
                                     !.m_chunk = EmptyChunk, !.m_locals = <<>>,
                                     !.m_scopeDepth = 0]),
                program, 1)

\* ------------------------------------------------------------------------
\* VM
\* ------------------------------------------------------------------------

\* enum class OpCode, in declaration order (the opcode's number is its
\* position minus one).
OpCodes ==
    << "OP_CONSTANT", "OP_NIL", "OP_TRUE", "OP_FALSE",
       "OP_ADD", "OP_SUBTRACT", "OP_MULTIPLY", "OP_DIVIDE", "OP_MODULO", "OP_NEGATE",
       "OP_EQUAL", "OP_NOT_EQUAL", "OP_LESS", "OP_LESS_EQUAL", "OP_GREATER",
       "OP_GREATER_EQUAL",
       "OP_NOT", "OP_AND", "OP_OR",
       "OP_GET_LOCAL", "OP_SET_LOCAL", "OP_GET_GLOBAL", "OP_SET_GLOBAL",
       "OP_POP",
       "OP_JUMP", "OP_JUMP_IF_FALSE", "OP_LOOP", "OP_CALL", "OP_RETURN",
       "OP_PRINT" >>

\* static_cast<int>(opcode)
OpCodeNumber(op) == (CHOOSE i \in 1..Len(OpCodes) : OpCodes[i] = op) - 1

\* The fraction digits of rem/den, at most k of them, by long division.
RECURSIVE FractionDigits(_, _, _)
FractionDigits(rem, den, k) ==
    IF rem = 0 \/ k = 0 THEN ""
    ELSE ToString((rem * 10) \div den) \o FractionDigits((rem * 10) % den, den, k - 1)

\* std::format("{}", double) for the numbers of the model: an integral value
\* prints without a decimal point, any other one with its fraction digits (up
\* to the 16 a double carries).
FormatNumber(v) ==
    IF v.den = 1 THEN ToString(v.num)
    ELSE (IF v.num < 0 THEN "-" ELSE "")
         \o ToString(Abs(v.num) \div v.den) \o "."
         \o FractionDigits(Abs(v.num) % v.den, v.den, 16)

\* VM::valueToString.  The trimming of trailing zeros after the decimal point
\* finds none to trim in what std::format produces here.
valueToString(value) ==
    CASE value.type = "NIL"    -> "nil"
      [] value.type = "BOOL"   -> IF value.b THEN "true" ELSE "false"
      [] value.type = "NUMBER" -> FormatNumber(value)
      [] value.type = "STRING" -> value.s

\* Variant of isFalsey in which every Number is truthy.
isFalseyNumbersTruthy(value) ==
    IF isNil(value) THEN TRUE
    ELSE IF isBool(value) THEN ~value.b
    ELSE FALSE

\* VM::isFalsey
isFalsey(value) ==
    IF isNil(value) THEN TRUE
    ELSE IF isBool(value) THEN ~value.b
    ELSE IF isNumber(value) THEN NumIsZero(value)
    ELSE FALSE

\* Variant of valuesEqual that lets values of different tags be equal when both
\* are falsey.
valuesEqualLoose(a, b) ==
    IF a.type # b.type THEN isFalsey(a) /\ isFalsey(b)
    ELSE CASE a.type = "NIL"    -> TRUE
           [] a.type = "BOOL"   -> a.b = b.b
           [] a.type = "NUMBER" -> a.num = b.num /\ a.den = b.den
           [] a.type = "STRING" -> a.s = b.s

\* VM::valuesEqual
valuesEqual(a, b) ==
    IF a.type # b.type THEN FALSE
    ELSE CASE a.type = "NIL"    -> TRUE
           [] a.type = "BOOL"   -> a.b = b.b
           [] a.type = "NUMBER" -> a.num = b.num /\ a.den = b.den
           [] a.type = "STRING" -> a.s = b.s

\* VM(): no chunk, empty stack.
VMNew == [m_chunk |-> [kind |-> "none", i |-> 0], m_ip |-> 0, m_stack |-> <<>>,
          m_error |-> ""]

\* VM::runtimeError
runtimeError(v, message) == [v EXCEPT !.m_error = message]

\* VM::push
push(v, value) == [v EXCEPT !.m_stack = Append(@, value)]

\* VM::pop, the value returned: Value() on an empty stack.
popValue(v) == IF v.m_stack = <<>> THEN NilVal ELSE v.m_stack[Len(v.m_stack)]

\* VM::pop, the VM after the call: an empty stack records the underflow
\* message and execution goes on.
pop(v) ==
    IF v.m_stack = <<>> THEN runtimeError(v, "Stack underflow.")
    ELSE [v EXCEPT !.m_stack = SubSeq(@, 1, Len(@) - 1)]

\* VM::peek: Value() on an empty stack.
peek(v) == IF v.m_stack = <<>> THEN NilVal ELSE v.m_stack[Len(v.m_stack)]

\* VM::readInstruction, the instruction returned: past the end of the code
\* it is a made-up OP_RETURN.
readInstruction(v, chunk) ==
    IF v.m_ip < 0 \/ v.m_ip >= Len(chunk.code)
    THEN Instruction("OP_RETURN", 0)
    ELSE chunk.code[v.m_ip + 1]

\* VM::readInstruction, the VM after the call: m_ip++ unless past the end.
advanceIp(v, chunk) ==
    IF v.m_ip < 0 \/ v.m_ip >= Len(chunk.code) THEN v
    ELSE [v EXCEPT !.m_ip = @ + 1]

\* The outcomes of one iteration of the loop of interpret: going on, going on
\* after writing a line, returning a result.
GoOn(v)           == [vm |-> v, printed |-> <<>>, ret |-> "NONE"]
GoOnPrinting(v, line) == [vm |-> v, printed |-> <<line>>, ret |-> "NONE"]
Return(v, result) == [vm |-> v, printed |-> <<>>, ret |-> result]
Fault(v, message) == Return(runtimeError(v, message), "RUNTIME_ERROR")

\* Variant of case OP_ADD that concatenates right before left.
execAddSwapped(v) ==
    LET b  == popValue(v)
        v1 == pop(v)
        a  == popValue(v1)
        v2 == pop(v1)
    IN  IF isString(a) /\ isString(b) THEN GoOn(push(v2, StrVal(b.s \o a.s)))
        ELSE IF isNumber(a) /\ isNumber(b) THEN GoOn(push(v2, NumAdd(a, b)))
        ELSE Fault(v2, "Operands must be two numbers or two strings.")

\* case OP_ADD
execAdd(v) ==
    LET b  == popValue(v)
        v1 == pop(v)
        a  == popValue(v1)
        v2 == pop(v1)
    IN  IF isString(a) /\ isString(b) THEN GoOn(push(v2, StrVal(a.s \o b.s)))
        ELSE IF isNumber(a) /\ isNumber(b) THEN GoOn(push(v2, NumAdd(a, b)))
        ELSE Fault(v2, "Operands must be two numbers or two strings.")

\* case OP_SUBTRACT, OP_MULTIPLY, OP_LESS, OP_GREATER: both operands numbers.
execNumeric(v, op) ==
    LET b  == popValue(v)
        v1 == pop(v)
        a  == popValue(v1)
        v2 == pop(v1)
    IN  IF ~isNumber(a) \/ ~isNumber(b) THEN Fault(v2, "Operands must be numbers.")
        ELSE CASE op = "OP_SUBTRACT" -> GoOn(push(v2, NumSub(a, b)))
               [] op = "OP_MULTIPLY" -> GoOn(push(v2, NumMul(a, b)))
               [] op = "OP_LESS"     -> GoOn(push(v2, BoolVal(NumLess(a, b))))
               [] op = "OP_GREATER"  -> GoOn(push(v2, BoolVal(NumGreater(a, b))))

\* case OP_DIVIDE
execDivide(v) ==
    LET b  == popValue(v)
        v1 == pop(v)
        a  == popValue(v1)
        v2 == pop(v1)
    IN  IF ~isNumber(a) \/ ~isNumber(b) THEN Fault(v2, "Operands must be numbers.")
        ELSE IF NumIsZero(b) THEN Fault(v2, "Division by zero.")
        ELSE GoOn(push(v2, NumDiv(a, b)))

\* Variant of case OP_MODULO that reports a zero divisor as OP_DIVIDE does.
execModuloAsDivide(v) ==
    LET b  == popValue(v)
        v1 == pop(v)
        a  == popValue(v1)
        v2 == pop(v1)
    IN  IF ~isNumber(a) \/ ~isNumber(b) THEN Fault(v2, "Operands must be numbers.")
        ELSE IF NumIsZero(b) THEN Fault(v2, "Division by zero.")
        ELSE GoOn(push(v2, NumFmod(a, b)))

\* case OP_MODULO
execModulo(v) ==
    LET b  == popValue(v)
        v1 == pop(v)
        a  == popValue(v1)
        v2 == pop(v1)
    IN  IF ~isNumber(a) \/ ~isNumber(b) THEN Fault(v2, "Operands must be numbers.")
        ELSE IF NumIsZero(b) THEN Fault(v2, "Modulo by zero.")
        ELSE GoOn(push(v2, NumFmod(a, b)))

\* case OP_NEGATE
execNegate(v) ==
    LET value == popValue(v)
        v1    == pop(v)
    IN  IF ~isNumber(value) THEN Fault(v1, "Operand must be a number.")
        ELSE GoOn(push(v1, NumNeg(value)))

\* Variant of case OP_AND and OP_OR that pushes the operand that decides the
\* result instead of a Boolean.
execLogicalOperand(v, op) ==
    LET b  == popValue(v)
        v1 == pop(v)
        a  == popValue(v1)
        v2 == pop(v1)
    IN  CASE op = "OP_EQUAL" -> GoOn(push(v2, BoolVal(valuesEqual(a, b))))
          [] op = "OP_AND"   -> GoOn(push(v2, IF isFalsey(a) THEN a ELSE b))
          [] op = "OP_OR"    -> GoOn(push(v2, IF isFalsey(a) THEN b ELSE a))

\* case OP_EQUAL, OP_AND, OP_OR: no type check.
execLogical(v, op) ==
    LET b  == popValue(v)
        v1 == pop(v)
        a  == popValue(v1)
        v2 == pop(v1)
    IN  CASE op = "OP_EQUAL" -> GoOn(push(v2, BoolVal(valuesEqual(a, b))))
          [] op = "OP_AND"   -> GoOn(push(v2, BoolVal(~isFalsey(a) /\ ~isFalsey(b))))
          [] op = "OP_OR"    -> GoOn(push(v2, BoolVal(~isFalsey(a) \/ ~isFalsey(b))))

\* case OP_NOT
execNot(v) == GoOn(push(pop(v), BoolVal(isFalsey(popValue(v)))))

\* Variant of case OP_GET_LOCAL, OP_SET_LOCAL that does nothing and goes on.
execLocalSkipped(v) == GoOn(v)

\* case OP_GET_LOCAL, OP_SET_LOCAL
execLocal(v) == Fault(v, "Local variables not fully implemented.")

\* case OP_CALL
execCall(v) == Fault(v, "Function calls not fully implemented.")

\* Variant of case OP_JUMP_IF_FALSE that jumps when the condition is truthy.
execJumpIfTruthy(v, operand) ==
    IF isFalsey(peek(v)) THEN GoOn(v) ELSE GoOn([v EXCEPT !.m_ip = @ + operand])

\* case OP_JUMP_IF_FALSE: the condition is peeked, not popped.
execJumpIfFalse(v, operand) ==
    IF isFalsey(peek(v)) THEN GoOn([v EXCEPT !.m_ip = @ + operand]) ELSE GoOn(v)

\* case OP_PRINT
execPrint(v) == GoOnPrinting(pop(v), valueToString(popValue(v)))

\* One iteration of the for (;;) loop of VM::interpret on `chunk`:
\* readInstruction, then the switch.  `junk` is what an OP_CONSTANT reads when
\* its operand is no index of the constant pool (a read outside the vector).
execute(v, chunk, junk) ==
    LET instruction == readInstruction(v, chunk)
        op          == instruction.opcode
        operand     == instruction.operand
        w           == advanceIp(v, chunk)
    IN  CASE op = "OP_CONSTANT" ->
                GoOn(push(w, IF operand < Len(chunk.constants)
                             THEN chunk.constants[operand + 1] ELSE junk))
          [] op = "OP_NIL"      -> GoOn(push(w, NilVal))
          [] op = "OP_TRUE"     -> GoOn(push(w, BoolVal(TRUE)))
          [] op = "OP_FALSE"    -> GoOn(push(w, BoolVal(FALSE)))
          [] op = "OP_ADD"      -> execAdd(w)
          [] op \in {"OP_SUBTRACT", "OP_MULTIPLY", "OP_LESS", "OP_GREATER"} ->
                execNumeric(w, op)
          [] op = "OP_DIVIDE"   -> execDivide(w)
          [] op = "OP_MODULO"   -> execModulo(w)
          [] op = "OP_NEGATE"   -> execNegate(w)
          [] op \in {"OP_EQUAL", "OP_AND", "OP_OR"} -> execLogical(w, op)
          [] op = "OP_NOT"      -> execNot(w)
          [] op \in {"OP_GET_LOCAL", "OP_SET_LOCAL"} -> execLocal(w)
          [] op = "OP_POP"      -> GoOn(pop(w))
          [] op = "OP_JUMP"     -> GoOn([w EXCEPT !.m_ip = @ + operand])
          [] op = "OP_JUMP_IF_FALSE" -> execJumpIfFalse(w, operand)
          [] op = "OP_LOOP"     -> GoOn([w EXCEPT !.m_ip = @ - operand])
          [] op = "OP_CALL"     -> execCall(w)
          [] op = "OP_RETURN"   -> Return(w, "OK")
          [] op = "OP_PRINT"    -> execPrint(w)
          [] OTHER -> Fault(w, "Unknown opcode: " \o ToString(OpCodeNumber(op)))

\* Variant of interpretEntry without the loop that empties the stack.
interpretEntryKeepingStack(v, chunkId) ==
    [v EXCEPT !.m_chunk = chunkId, !.m_ip = 0, !.m_error = ""]

\* The entry of VM::interpret: the chunk is taken, m_ip, the error message and
\* the stack are reset.
interpretEntry(v, chunkId) ==
    [v EXCEPT !.m_chunk = chunkId, !.m_ip = 0, !.m_error = "", !.m_stack = <<>>]

\* ------------------------------------------------------------------------
\* Inputs: the Programs handed to the generator.  Each is the AST Parser::parse
\* builds for the source text quoted with it.
\* ------------------------------------------------------------------------

Num(k)  == LiteralExpr(NumVal(k, 1))
Str(s)  == LiteralExpr(StrVal(s))
True    == LiteralExpr(BoolVal(TRUE))
False   == LiteralExpr(BoolVal(FALSE))
Bin(left, type, lexeme, right) == BinaryExpr(left, Tok(type, lexeme), right)
Un(type, lexeme, right)        == UnaryExpr(Tok(type, lexeme), right)

\* print 1 + 2 * 3;
testArithmetic == << PrintStmt(Bin(Num(1), "PLUS", "+", Bin(Num(2), "STAR", "*", Num(3)))) >>

\* print 5 > 3;
testComparison == << PrintStmt(Bin(Num(5), "GREATER", ">", Num(3))) >>

\* print "Hello" + " " + "World";
testStrings ==
    << PrintStmt(Bin(Bin(Str("Hello"), "PLUS", "+", Str(" ")), "PLUS", "+", Str("World"))) >>

\* if (true) { print "yes"; } else { print "no"; }
testIfStatement ==
    << IfStmt(True, BlockStmt(<< PrintStmt(Str("yes")) >>),
              BlockStmt(<< PrintStmt(Str("no")) >>)) >>

\* let x = 0; while (x < 3) { print x; x = x + 1; }
testWhileLoop ==
    << LetStmt("x", Num(0)),
       WhileStmt(Bin(VariableExpr("x"), "LESS", "<", Num(3)),
                 BlockStmt(<< PrintStmt(VariableExpr("x")),
                              ExpressionStmt(AssignExpr("x",
                                  Bin(VariableExpr("x"), "PLUS", "+", Num(1)))) >>)) >>

\* { let x = 1; { let x = 2; print x; } print x; }
ShadowingProgram ==
    << BlockStmt(<< LetStmt("x", Num(1)),
                    BlockStmt(<< LetStmt("x", Num(2)), PrintStmt(VariableExpr("x")) >>),
                    PrintStmt(VariableExpr("x")) >>) >>

\* (e + e) + (e + e) ... over `leaves` literals `1`, every operand in
\* parentheses: 2 * leaves - 1 instructions.
RECURSIVE Sum(_)
Sum(leaves) ==
    IF leaves = 1 THEN Num(1)
    ELSE Bin(GroupingExpr(Sum(leaves \div 2)), "PLUS", "+",
             GroupingExpr(Sum(leaves - leaves \div 2)))

\* A block of one expression statement that lowers to exactly n instructions
\* (n >= 2) and declares nothing: the sum and the OP_POP of the statement, with
\* a leading `-` when n is odd.
BodyOf(n) ==
    IF n % 2 = 0
    THEN BlockStmt(<< ExpressionStmt(Sum(n \div 2)) >>)
    ELSE BlockStmt(<< ExpressionStmt(
             Un("MINUS", "-", GroupingExpr(Sum((n - 1) \div 2)))) >>)

\* if (false) { <n instructions> }
IfThenProgram(n) == << IfStmt(False, BodyOf(n), NullStmt) >>

\* if (true) { } else { <n instructions> }
IfElseProgram(n) == << IfStmt(True, BlockStmt(<<>>), BodyOf(n)) >>

\* while (false) { <n instructions> }
WhileProgram(n) == << WhileStmt(False, BodyOf(n)) >>

\* if (false) { <64 literals 1> } (four times) print 2;
\* The literal 2 is the 257th constant of the Chunk.
PoolOverflowProgram ==
    << IfStmt(False, BlockStmt(<< ExpressionStmt(Sum(64)) >>), NullStmt),
       IfStmt(False, BlockStmt(<< ExpressionStmt(Sum(64)) >>), NullStmt),
       IfStmt(False, BlockStmt(<< ExpressionStmt(Sum(64)) >>), NullStmt),
       IfStmt(False, BlockStmt(<< ExpressionStmt(Sum(64)) >>), NullStmt),
       PrintStmt(Num(2)) >>

\* A function on 1..n written out as the sequence of its values.
Table(f) == <<>> \o f

\* The operands of the Programs with a logical operator.
LogicalValues ==
    << NilVal, BoolVal(FALSE), BoolVal(TRUE), NumVal(0, 1), NumVal(2, 1), StrVal("") >>

\* print a && b;  and  print a || b;  as the Parser builds them from an AND
\* and an OR token, a and b literals.
LogicalProgram(type, lexeme, a, b) ==
    << PrintStmt(Bin(LiteralExpr(a), type, lexeme, LiteralExpr(b))) >>

\* 51 .. 86: a && b and 87 .. 122: a || b, for every pair of LogicalValues.
LogicalPrograms ==
    Table([k \in 1..(2 * Len(LogicalValues) * Len(LogicalValues)) |->
        LogicalProgram(
            IF k <= Len(LogicalValues) * Len(LogicalValues) THEN "AND" ELSE "OR",
            IF k <= Len(LogicalValues) * Len(LogicalValues) THEN "&&" ELSE "||",
            LogicalValues[(((k - 1) \div Len(LogicalValues)) % Len(LogicalValues)) + 1],
            LogicalValues[((k - 1) % Len(LogicalValues)) + 1])])

\* The Programs given as syntax trees.
HandPrograms ==
    << testArithmetic, testComparison, testStrings, testIfStatement, testWhileLoop,
       ShadowingProgram,
       \* 7: { let x = 1; let x = 2; }
       << BlockStmt(<< LetStmt("x", Num(1)), LetStmt("x", Num(2)) >>) >>,
       \* 8: let x = 1; if (true) { let x = 2; }
       << LetStmt("x", Num(1)),
          IfStmt(True, BlockStmt(<< LetStmt("x", Num(2)) >>), NullStmt) >>,
       \* 9: let x = 1; let x = 2;
       << LetStmt("x", Num(1)), LetStmt("x", Num(2)) >>,
       \* 10: print y;
       << PrintStmt(VariableExpr("y")) >>,
       \* 11: print y; let x = 1; let x = 2;
       << PrintStmt(VariableExpr("y")), LetStmt("x", Num(1)), LetStmt("x", Num(2)) >>,
       \* 12: fn f() { let x = 1; let x = 2; }
       << FunctionStmt("f", <<>>, << LetStmt("x", Num(1)), LetStmt("x", Num(2)) >>) >>,
       \* 13: { let x = 1; let x = 2; print y; }
       << BlockStmt(<< LetStmt("x", Num(1)), LetStmt("x", Num(2)),
                       PrintStmt(VariableExpr("y")) >>) >>,
       \* 14: print 1 + "a";
       << PrintStmt(Bin(Num(1), "PLUS", "+", Str("a"))) >>,
       \* 15: print 5 / 0;
       << PrintStmt(Bin(Num(5), "SLASH", "/", Num(0))) >>,
       \* 16: print 5 % 0;
       << PrintStmt(Bin(Num(5), "PERCENT", "%", Num(0))) >>,
       \* 17: if (false) print 1;
       << IfStmt(False, PrintStmt(Num(1)), NullStmt) >>,
       \* 18: while (false) print 1;
       << WhileStmt(False, PrintStmt(Num(1))) >>,
       \* 19: let x = 1; if (false) print x;
       << LetStmt("x", Num(1)), IfStmt(False, PrintStmt(VariableExpr("x")), NullStmt) >>,
       \* 20: let x = 1; print 1 + "a"; print x;
       << LetStmt("x", Num(1)), PrintStmt(Bin(Num(1), "PLUS", "+", Str("a"))),
          PrintStmt(VariableExpr("x")) >>,
       \* 21: print 1(2);
       << PrintStmt(CallExpr(Num(1), << Num(2) >>)) >>,
       \* 22: fn f() {} f();
       << FunctionStmt("f", <<>>, <<>>),
          ExpressionStmt(CallExpr(VariableExpr("f"), <<>>)) >>,
       \* 23: while (true) {}
       << WhileStmt(True, BlockStmt(<<>>)) >>,
       \* 24: while (true) print 1;
       << WhileStmt(True, PrintStmt(Num(1))) >>,
       \* 25: let x; x = 2;
       << LetStmt("x", NullExpr), ExpressionStmt(AssignExpr("x", Num(2))) >>,
       \* 26: return 1; print 2;
       << ReturnStmt(Num(1)), PrintStmt(Num(2)) >>,
       \* 27: if (0) print "t"; else print "f";
       << IfStmt(Num(0), PrintStmt(Str("t")), PrintStmt(Str("f"))) >>,
       \* 28: print 8 - 3 - 2;
       << PrintStmt(Bin(Bin(Num(8), "MINUS", "-", Num(3)), "MINUS", "-", Num(2))) >>,
       \* 29: print 7 / 2; print 7 % 3;
       << PrintStmt(Bin(Num(7), "SLASH", "/", Num(2))),
          PrintStmt(Bin(Num(7), "PERCENT", "%", Num(3))) >>,
       \* 30: while (1 < 2) print 1;
       << WhileStmt(Bin(Num(1), "LESS", "<", Num(2)), PrintStmt(Num(1))) >>,
       \* 31: fn f(a) { return f(a); } print 1;
       << FunctionStmt("f", << "a" >>,
              << ReturnStmt(CallExpr(VariableExpr("f"), << VariableExpr("a") >>)) >>),
          PrintStmt(Num(1)) >>,
       \* 32: print -"a";
       << PrintStmt(Un("MINUS", "-", Str("a"))) >>,
       \* 33: { fn f() {} fn f() {} }
       << BlockStmt(<< FunctionStmt("f", <<>>, <<>>), FunctionStmt("f", <<>>, <<>>) >>) >>,
       \* 34: let a = 1; { let b = 2; let a = 3; } let b = 4;
       << LetStmt("a", Num(1)),
          BlockStmt(<< LetStmt("b", Num(2)), LetStmt("a", Num(3)) >>),
          LetStmt("b", Num(4)) >>,
       \* 35: if (true) if (true) print 1; print 2;
       << IfStmt(True, IfStmt(True, PrintStmt(Num(1)), NullStmt), NullStmt),
          PrintStmt(Num(2)) >>,
       \* 36: if (true) print 1; else print 2; print 3;
       << IfStmt(True, PrintStmt(Num(1)), PrintStmt(Num(2))), PrintStmt(Num(3)) >>,
       \* 37: print (1 + 2) * 3 >= 9;
       << PrintStmt(Bin(Bin(GroupingExpr(Bin(Num(1), "PLUS", "+", Num(2))),
                            "STAR", "*", Num(3)), "GREATER_EQUAL", ">=", Num(9))) >>,
       \* 38: x = 1;
       << ExpressionStmt(AssignExpr("x", Num(1))) >>,
       \* 39 .. 47: branch and loop bodies around the 8-bit jump limit
       IfThenProgram(254), IfThenProgram(255), IfThenProgram(256),
       IfElseProgram(255), IfElseProgram(256),
       WhileProgram(253), WhileProgram(254), WhileProgram(255), WhileProgram(256),
       \* 48: four skipped blocks of 64 literals each, then print 2;
       PoolOverflowProgram,
       \* 49: print false && 1 / 0;  (as the Parser builds it from an AND token)
       << PrintStmt(Bin(False, "AND", "&&", Bin(Num(1), "SLASH", "/", Num(0)))) >>,
       \* 50: print true || 1 / 0;  (as the Parser builds it from an OR token)
       << PrintStmt(Bin(True, "OR", "||", Bin(Num(1), "SLASH", "/", Num(0)))) >> >>
        \o LogicalPrograms

\* The source texts handed to Compiler::compile and Compiler::run, as sequences of
\* characters.
SourceList ==
    << \* 1: print true && false;
       << "p", "r", "i", "n", "t", " ", "t", "r", "u", "e", " ", "&", "&", " ", "f",
          "a", "l", "s", "e", ";" >>,
       \* 2: print true || false;
       << "p", "r", "i", "n", "t", " ", "t", "r", "u", "e", " ", "|", "|", " ", "f",
          "a", "l", "s", "e", ";" >>,
       \* 3: print !true;
       << "p", "r", "i", "n", "t", " ", "!", "t", "r", "u", "e", ";" >>,
       \* 4: print !false;
       << "p", "r", "i", "n", "t", " ", "!", "f", "a", "l", "s", "e", ";" >>,
       \* 5: print 1; print ;
       << "p", "r", "i", "n", "t", " ", "1", ";", " ", "p", "r", "i", "n", "t", " ",
          ";" >>,
       \* 6: print 1 print 2; print 3;
       << "p", "r", "i", "n", "t", " ", "1", " ", "p", "r", "i", "n", "t", " ", "2",
          ";", " ", "p", "r", "i", "n", "t", " ", "3", ";" >>,
       \* 7: { print 1; print ; } print 2;
       << "{", " ", "p", "r", "i", "n", "t", " ", "1", ";", " ", "p", "r", "i", "n",
          "t", " ", ";", " ", "}", " ", "p", "r", "i", "n", "t", " ", "2", ";" >>,
       \* 8: 1 = 2; print 4;
       << "1", " ", "=", " ", "2", ";", " ", "p", "r", "i", "n", "t", " ", "4",
          ";" >>,
       \* 9: print 1; let = 2;
       << "p", "r", "i", "n", "t", " ", "1", ";", " ", "l", "e", "t", " ", "=", " ",
          "2", ";" >>,
       \* 10: print 1; @
       << "p", "r", "i", "n", "t", " ", "1", ";", " ", "@" >>,
       \* 11: print 1; "abc
       << "p", "r", "i", "n", "t", " ", "1", ";", " ", "\"", "a", "b", "c" >>,
       \* 12: print "a" # "b";
       << "p", "r", "i", "n", "t", " ", "\"", "a", "\"", " ", "#", " ", "\"", "b",
          "\"", ";" >>,
       \* 13: print 1 + 2 * 3;
       << "p", "r", "i", "n", "t", " ", "1", " ", "+", " ", "2", " ", "*", " ", "3",
          ";" >>,
       \* 14: print 8 - 3 - 2;
       << "p", "r", "i", "n", "t", " ", "8", " ", "-", " ", "3", " ", "-", " ", "2",
          ";" >>,
       \* 15: print 2 * 3 + 4;
       << "p", "r", "i", "n", "t", " ", "2", " ", "*", " ", "3", " ", "+", " ", "4",
          ";" >>,
       \* 16: print 10 - 4 / 2;
       << "p", "r", "i", "n", "t", " ", "1", "0", " ", "-", " ", "4", " ", "/", " ",
          "2", ";" >>,
       \* 17: print 1 + 2 == 3;
       << "p", "r", "i", "n", "t", " ", "1", " ", "+", " ", "2", " ", "=", "=", " ",
          "3", ";" >>,
       \* 18: print 1 < 2 == true;
       << "p", "r", "i", "n", "t", " ", "1", " ", "<", " ", "2", " ", "=", "=", " ",
          "t", "r", "u", "e", ";" >>,
       \* 19: print -2 * 3;
       << "p", "r", "i", "n", "t", " ", "-", "2", " ", "*", " ", "3", ";" >>,
       \* 20: print 2 + 3 < 4 * 5;
       << "p", "r", "i", "n", "t", " ", "2", " ", "+", " ", "3", " ", "<", " ", "4",
          " ", "*", " ", "5", ";" >>,
       \* 21: print 7 % 4 * 2;
       << "p", "r", "i", "n", "t", " ", "7", " ", "%", " ", "4", " ", "*", " ", "2",
          ";" >>,
       \* 22: print - 1 - - 2;
       << "p", "r", "i", "n", "t", " ", "-", " ", "1", " ", "-", " ", "-", " ", "2",
          ";" >>,
       \* 23: print 12 / 2 / 3;
       << "p", "r", "i", "n", "t", " ", "1", "2", " ", "/", " ", "2", " ", "/", " ",
          "3", ";" >>,
       \* 24: print 1 == 2 != true;
       << "p", "r", "i", "n", "t", " ", "1", " ", "=", "=", " ", "2", " ", "!", "=",
          " ", "t", "r", "u", "e", ";" >>,
       \* 25: print 5 - 3;
       << "p", "r", "i", "n", "t", " ", "5", " ", "-", " ", "3", ";" >>,
       \* 26: print 3 - 5;
       << "p", "r", "i", "n", "t", " ", "3", " ", "-", " ", "5", ";" >>,
       \* 27: print 7 / 2;
       << "p", "r", "i", "n", "t", " ", "7", " ", "/", " ", "2", ";" >>,
       \* 28: print 7 % 3;
       << "p", "r", "i", "n", "t", " ", "7", " ", "%", " ", "3", ";" >>,
       \* 29: print 3 % 7;
       << "p", "r", "i", "n", "t", " ", "3", " ", "%", " ", "7", ";" >>,
       \* 30: print 1 < 2;
       << "p", "r", "i", "n", "t", " ", "1", " ", "<", " ", "2", ";" >>,
       \* 31: print 2 < 1;
       << "p", "r", "i", "n", "t", " ", "2", " ", "<", " ", "1", ";" >>,
       \* 32: print 2 > 1;
       << "p", "r", "i", "n", "t", " ", "2", " ", ">", " ", "1", ";" >>,
       \* 33: print "a" + "b";
       << "p", "r", "i", "n", "t", " ", "\"", "a", "\"", " ", "+", " ", "\"", "b",
          "\"", ";" >>,
       \* 34: print 1 <= 2;
       << "p", "r", "i", "n", "t", " ", "1", " ", "<", "=", " ", "2", ";" >>,
       \* 35: print 3 >= 4;
       << "p", "r", "i", "n", "t", " ", "3", " ", ">", "=", " ", "4", ";" >>,
       \* 36: if (true) print "t"; else print "f"; print "end";
       << "i", "f", " ", "(", "t", "r", "u", "e", ")", " ", "p", "r", "i", "n", "t",
          " ", "\"", "t", "\"", ";", " ", "e", "l", "s", "e", " ", "p", "r", "i", "n",
          "t", " ", "\"", "f", "\"", ";", " ", "p", "r", "i", "n", "t", " ", "\"", "e",
          "n", "d", "\"", ";" >>,
       \* 37: if (false) print "t"; else print "f"; print "end";
       << "i", "f", " ", "(", "f", "a", "l", "s", "e", ")", " ", "p", "r", "i", "n",
          "t", " ", "\"", "t", "\"", ";", " ", "e", "l", "s", "e", " ", "p", "r", "i",
          "n", "t", " ", "\"", "f", "\"", ";", " ", "p", "r", "i", "n", "t", " ", "\"",
          "e", "n", "d", "\"", ";" >>,
       \* 38: if (0) print "t"; print "end";
       << "i", "f", " ", "(", "0", ")", " ", "p", "r", "i", "n", "t", " ", "\"",
          "t", "\"", ";", " ", "p", "r", "i", "n", "t", " ", "\"", "e", "n", "d", "\"",
          ";" >>,
       \* 39: if (1) print "t"; print "end";
       << "i", "f", " ", "(", "1", ")", " ", "p", "r", "i", "n", "t", " ", "\"",
          "t", "\"", ";", " ", "p", "r", "i", "n", "t", " ", "\"", "e", "n", "d", "\"",
          ";" >>,
       \* 40: if ("") print "t"; else print "f"; print "end";
       << "i", "f", " ", "(", "\"", "\"", ")", " ", "p", "r", "i", "n", "t", " ",
          "\"", "t", "\"", ";", " ", "e", "l", "s", "e", " ", "p", "r", "i", "n", "t",
          " ", "\"", "f", "\"", ";", " ", "p", "r", "i", "n", "t", " ", "\"", "e", "n",
          "d", "\"", ";" >>,
       \* 41: if (1 > 2) print "t"; else print "f"; print "end";
       << "i", "f", " ", "(", "1", " ", ">", " ", "2", ")", " ", "p", "r", "i", "n",
          "t", " ", "\"", "t", "\"", ";", " ", "e", "l", "s", "e", " ", "p", "r", "i",
          "n", "t", " ", "\"", "f", "\"", ";", " ", "p", "r", "i", "n", "t", " ", "\"",
          "e", "n", "d", "\"", ";" >>,
       \* 42: if (false) print "t"; else if (true) print "g"; else print "f"; print "end";
       << "i", "f", " ", "(", "f", "a", "l", "s", "e", ")", " ", "p", "r", "i", "n",
          "t", " ", "\"", "t", "\"", ";", " ", "e", "l", "s", "e", " ", "i", "f", " ",
          "(", "t", "r", "u", "e", ")", " ", "p", "r", "i", "n", "t", " ", "\"", "g",
          "\"", ";", " ", "e", "l", "s", "e", " ", "p", "r", "i", "n", "t", " ", "\"",
          "f", "\"", ";", " ", "p", "r", "i", "n", "t", " ", "\"", "e", "n", "d", "\"",
          ";" >>,
       \* 43: // note\nprint 1.5 + 2;\n
       << "/", "/", " ", "n", "o", "t", "e", "\n", "p", "r", "i", "n", "t", " ",
          "1", ".", "5", " ", "+", " ", "2", ";", "\n" >>,
       \* 44: x = y = 1 + 2;
       << "x", " ", "=", " ", "y", " ", "=", " ", "1", " ", "+", " ", "2", ";" >>,
       \* 45: print -f(1)(2) * 3;
       << "p", "r", "i", "n", "t", " ", "-", "f", "(", "1", ")", "(", "2", ")", " ",
          "*", " ", "3", ";" >>,
       \* 46: print 5 > 3;
       << "p", "r", "i", "n", "t", " ", "5", " ", ">", " ", "3", ";" >>,
       \* 47: if (false) print "t"; print "end";
       << "i", "f", " ", "(", "f", "a", "l", "s", "e", ")", " ", "p", "r", "i", "n", "t",
          " ", "\"", "t", "\"", ";", " ", "p", "r", "i", "n", "t", " ", "\"", "e", "n",
          "d", "\"", ";" >>,
       \* 48: if (true) { print "yes"; } else { print "no"; }
       << "i", "f", " ", "(", "t", "r", "u", "e", ")", " ", "{", " ", "p", "r", "i", "n",
          "t", " ", "\"", "y", "e", "s", "\"", ";", " ", "}", " ", "e", "l", "s", "e",
          " ", "{", " ", "p", "r", "i", "n", "t", " ", "\"", "n", "o", "\"", ";", " ",
          "}" >>,
       \* 49: { let x = 1; let x = 2; print y; }
       << "{", " ", "l", "e", "t", " ", "x", " ", "=", " ", "1", ";", " ", "l", "e", "t",
          " ", "x", " ", "=", " ", "2", ";", " ", "p", "r", "i", "n", "t", " ", "y", ";",
          " ", "}" >>,
       \* 50: let x = 1; let x = 2; print y;
       << "l", "e", "t", " ", "x", " ", "=", " ", "1", ";", " ", "l", "e", "t", " ", "x",
          " ", "=", " ", "2", ";", " ", "p", "r", "i", "n", "t", " ", "y", ";" >>,
       \* 51: print y + z; print 1;
       << "p", "r", "i", "n", "t", " ", "y", " ", "+", " ", "z", ";", " ", "p", "r", "i",
          "n", "t", " ", "1", ";" >>,
       \* 52: (a) = 1; print 4;
       << "(", "a", ")", " ", "=", " ", "1", ";", " ", "p", "r", "i", "n", "t", " ", "4",
          ";" >>,
       \* 53: f() = 1; print 4;
       << "f", "(", ")", " ", "=", " ", "1", ";", " ", "p", "r", "i", "n", "t", " ", "4",
          ";" >>,
       \* 54: a + b = 1; print 4;
       << "a", " ", "+", " ", "b", " ", "=", " ", "1", ";", " ", "p", "r", "i", "n", "t",
          " ", "4", ";" >>,
       \* 55: ) print 1; = ; print
       << ")", " ", "p", "r", "i", "n", "t", " ", "1", ";", " ", "=", " ", ";", " ", "p",
          "r", "i", "n", "t" >>,
       \* 56: // a\n// b\nprint 1;
       << "/", "/", " ", "a", "\n", "/", "/", " ", "b", "\n", "p", "r", "i", "n", "t",
          " ", "1", ";" >>,
       \* 57: print 1;//c
       << "p", "r", "i", "n", "t", " ", "1", ";", "/", "/", "c" >>,
       \* 58: print 1; // c\nprint 2;
       << "p", "r", "i", "n", "t", " ", "1", ";", " ", "/", "/", " ", "c", "\n", "p",
          "r", "i", "n", "t", " ", "2", ";" >> >>

\* Lexer lexer(source); lexer.tokenize() for each source text.
Tokens == Table([t \in DOMAIN SourceList |-> tokenize(SourceList[t])])

\* Parser parser(tokens); parser.parse() for each source text.
Front == Table([t \in DOMAIN SourceList |-> parse(Tokens[t])])

\* What Parser::parse returns for each source text of SourceList, written out.
TextPrograms ==
    << \* 1: print true && false;
       << >>,
       \* 2: print true || false;
       << >>,
       \* 3: print !true;
       << PrintStmt(True) >>,
       \* 4: print !false;
       << PrintStmt(False) >>,
       \* 5: print 1; print ;
       << PrintStmt(Num(1)) >>,
       \* 6: print 1 print 2; print 3;
       << PrintStmt(Num(3)) >>,
       \* 7: { print 1; print ; } print 2;
       << PrintStmt(Num(2)) >>,
       \* 8: 1 = 2; print 4;
       << PrintStmt(Num(4)) >>,
       \* 9: print 1; let = 2;
       << PrintStmt(Num(1)) >>,
       \* 10: print 1; @
       << PrintStmt(Num(1)) >>,
       \* 11: print 1; "abc
       << PrintStmt(Num(1)) >>,
       \* 12: print "a" # "b";
       << >>,
       \* 13: print 1 + 2 * 3;
       << PrintStmt(Bin(Num(1), "PLUS", "+", Bin(Num(2), "STAR", "*", Num(3)))) >>,
       \* 14: print 8 - 3 - 2;
       << PrintStmt(Bin(Bin(Num(8), "MINUS", "-", Num(3)), "MINUS", "-", Num(2))) >>,
       \* 15: print 2 * 3 + 4;
       << PrintStmt(Bin(Bin(Num(2), "STAR", "*", Num(3)), "PLUS", "+", Num(4))) >>,
       \* 16: print 10 - 4 / 2;
       << PrintStmt(Bin(Num(10), "MINUS", "-", Bin(Num(4), "SLASH", "/", Num(2)))) >>,
       \* 17: print 1 + 2 == 3;
       << PrintStmt(Bin(Bin(Num(1), "PLUS", "+", Num(2)), "EQUAL_EQUAL", "==", Num(3))) >>,
       \* 18: print 1 < 2 == true;
       << PrintStmt(Bin(Bin(Num(1), "LESS", "<", Num(2)), "EQUAL_EQUAL", "==", True)) >>,
       \* 19: print -2 * 3;
       << PrintStmt(Bin(Un("MINUS", "-", Num(2)), "STAR", "*", Num(3))) >>,
       \* 20: print 2 + 3 < 4 * 5;
       << PrintStmt(Bin(Bin(Num(2), "PLUS", "+", Num(3)), "LESS", "<",
                        Bin(Num(4), "STAR", "*", Num(5)))) >>,
       \* 21: print 7 % 4 * 2;
       << PrintStmt(Bin(Bin(Num(7), "PERCENT", "%", Num(4)), "STAR", "*", Num(2))) >>,
       \* 22: print - 1 - - 2;
       << PrintStmt(Bin(Un("MINUS", "-", Num(1)), "MINUS", "-", Un("MINUS", "-", Num(2)))) >>,
       \* 23: print 12 / 2 / 3;
       << PrintStmt(Bin(Bin(Num(12), "SLASH", "/", Num(2)), "SLASH", "/", Num(3))) >>,
       \* 24: print 1 == 2 != true;
       << PrintStmt(Bin(Bin(Num(1), "EQUAL_EQUAL", "==", Num(2)), "BANG_EQUAL", "!=", True)) >>,
       \* 25: print 5 - 3;
       << PrintStmt(Bin(Num(5), "MINUS", "-", Num(3))) >>,
       \* 26: print 3 - 5;
       << PrintStmt(Bin(Num(3), "MINUS", "-", Num(5))) >>,
       \* 27: print 7 / 2;
       << PrintStmt(Bin(Num(7), "SLASH", "/", Num(2))) >>,
       \* 28: print 7 % 3;
       << PrintStmt(Bin(Num(7), "PERCENT", "%", Num(3))) >>,
       \* 29: print 3 % 7;
       << PrintStmt(Bin(Num(3), "PERCENT", "%", Num(7))) >>,
       \* 30: print 1 < 2;
       << PrintStmt(Bin(Num(1), "LESS", "<", Num(2))) >>,
       \* 31: print 2 < 1;
       << PrintStmt(Bin(Num(2), "LESS", "<", Num(1))) >>,
       \* 32: print 2 > 1;
       << PrintStmt(Bin(Num(2), "GREATER", ">", Num(1))) >>,
       \* 33: print "a" + "b";
       << PrintStmt(Bin(Str("a"), "PLUS", "+", Str("b"))) >>,
       \* 34: print 1 <= 2;
       << PrintStmt(Bin(Num(1), "LESS_EQUAL", "<=", Num(2))) >>,
       \* 35: print 3 >= 4;
       << PrintStmt(Bin(Num(3), "GREATER_EQUAL", ">=", Num(4))) >>,
       \* 36: if (true) print "t"; else print "f"; print "end";
       << IfStmt(True, PrintStmt(Str("t")), PrintStmt(Str("f"))), PrintStmt(Str("end")) >>,
       \* 37: if (false) print "t"; else print "f"; print "end";
       << IfStmt(False, PrintStmt(Str("t")), PrintStmt(Str("f"))), PrintStmt(Str("end")) >>,
       \* 38: if (0) print "t"; print "end";
       << IfStmt(Num(0), PrintStmt(Str("t")), NullStmt), PrintStmt(Str("end")) >>,
       \* 39: if (1) print "t"; print "end";
       << IfStmt(Num(1), PrintStmt(Str("t")), NullStmt), PrintStmt(Str("end")) >>,
       \* 40: if ("") print "t"; else print "f"; print "end";
       << IfStmt(Str(""), PrintStmt(Str("t")), PrintStmt(Str("f"))), PrintStmt(Str("end")) >>,
       \* 41: if (1 > 2) print "t"; else print "f"; print "end";
       << IfStmt(Bin(Num(1), "GREATER", ">", Num(2)), PrintStmt(Str("t")),
                 PrintStmt(Str("f"))),
          PrintStmt(Str("end")) >>,
       \* 42: if (false) print "t"; else if (true) print "g"; else print "f"; print "end";
       << IfStmt(False, PrintStmt(Str("t")),
                 IfStmt(True, PrintStmt(Str("g")), PrintStmt(Str("f")))),
          PrintStmt(Str("end")) >>,
       \* 43: // note\nprint 1.5 + 2;\n
       << PrintStmt(Bin(LiteralExpr(NumVal(3, 2)), "PLUS", "+", Num(2))) >>,
       \* 44: x = y = 1 + 2;
       << ExpressionStmt(AssignExpr("x", AssignExpr("y", Bin(Num(1), "PLUS", "+", Num(2))))) >>,
       \* 45: print -f(1)(2) * 3;
       << PrintStmt(Bin(Un("MINUS", "-",
                           CallExpr(CallExpr(VariableExpr("f"), << Num(1) >>), << Num(2) >>)),
                        "STAR", "*", Num(3))) >>,
       \* 46: print 5 > 3;
       << PrintStmt(Bin(Num(5), "GREATER", ">", Num(3))) >>,
       \* 47: if (false) print "t"; print "end";
       << IfStmt(False, PrintStmt(Str("t")), NullStmt), PrintStmt(Str("end")) >>,
       \* 48: if (true) { print "yes"; } else { print "no"; }
       << IfStmt(True, BlockStmt(<< PrintStmt(Str("yes")) >>),
                 BlockStmt(<< PrintStmt(Str("no")) >>)) >>,
       \* 49: { let x = 1; let x = 2; print y; }
       << BlockStmt(<< LetStmt("x", Num(1)), LetStmt("x", Num(2)),
                       PrintStmt(VariableExpr("y")) >>) >>,
       \* 50: let x = 1; let x = 2; print y;
       << LetStmt("x", Num(1)), LetStmt("x", Num(2)), PrintStmt(VariableExpr("y")) >>,
       \* 51: print y + z; print 1;
       << PrintStmt(Bin(VariableExpr("y"), "PLUS", "+", VariableExpr("z"))),
          PrintStmt(Num(1)) >>,
       \* 52: (a) = 1; print 4;
       << PrintStmt(Num(4)) >>,
       \* 53: f() = 1; print 4;
       << PrintStmt(Num(4)) >>,
       \* 54: a + b = 1; print 4;
       << PrintStmt(Num(4)) >>,
       \* 55: ) print 1; = ; print
       << PrintStmt(Num(1)) >>,
       \* 56: // a\n// b\nprint 1;
       << PrintStmt(Num(1)) >>,
       \* 57: print 1;//c
       << PrintStmt(Num(1)) >>,
       \* 58: print 1; // c\nprint 2;
       << PrintStmt(Num(1)), PrintStmt(Num(2)) >> >>

\* The Programs: the syntax trees, then the Programs of the source texts.
ProgramList == HandPrograms \o TextPrograms

\* Program p is what the front end of Compiler::compile makes of its source text.
FrontEnd(p) == p > Len(HandPrograms) => Front[p - Len(HandPrograms)].program = ProgramList[p]

Programs == 1..Len(ProgramList)

\* What IRGenerator::compile leaves in a newly constructed generator, per
\* Program (IRGenerator irgen; irgen.compile(program) in Compiler::compile).
Compiled == Table([p \in Programs |-> compile(IRGeneratorNew, ProgramList[p])])

\* The check for lexer errors of Compiler::compile: the diagnostic of the first
\* ERROR token of `tokens`, "" when there is none.
RECURSIVE lexerError(_)
lexerError(tokens) ==
    IF tokens = <<>> THEN ""
    ELSE IF Head(tokens).type = "ERROR"
         THEN "[Line " \o ToString(Head(tokens).line) \o "] Lexer Error: "
                  \o Head(tokens).lexeme
         ELSE lexerError(Tail(tokens))

\* The diagnostic of the check for lexer errors, per Program.  The texts of the
\* Programs given as syntax trees have no character the Lexer rejects.
LexerErrors ==
    Table([p \in Programs |->
        IF p > Len(HandPrograms) THEN lexerError(Tokens[p - Len(HandPrograms)]) ELSE ""])

\* Compiler::compile without its test of irgen.hadError().
CompileErrorLexerOnly(p) == LexerErrors[p]

\* What Compiler::compile(source) sets m_error to, per Program.
CompileError(p) ==
    IF LexerErrors[p] # "" THEN LexerErrors[p]
    ELSE IF Compiled[p].m_hadError THEN Compiled[p].m_error
    ELSE ""

\* ------------------------------------------------------------------------
\* Inputs: hand-built Chunks (Chunk is a public struct; Compiler::run(const
\* Chunk&) takes any).  Every OP_CONSTANT operand in them is an index of the
\* constant pool.
\* ------------------------------------------------------------------------

\* The instruction that pushes `value`, appended with the Chunk's own methods.
writeValue(chunk, value) ==
    CASE isNil(value)  -> write(chunk, "OP_NIL", 0)
      [] isBool(value) -> write(chunk, IF value.b THEN "OP_TRUE" ELSE "OP_FALSE", 0)
      [] OTHER         -> writeConstant(chunk, value)

\* The chunk of the given opcodes, all with operand 0.
RECURSIVE writeAll(_, _, _)
writeAll(chunk, ops, i) ==
    IF i > Len(ops) THEN chunk ELSE writeAll(write(chunk, ops[i], 0), ops, i + 1)

RawChunkList ==
    << writeAll(EmptyChunk, << "OP_POP", "OP_TRUE", "OP_PRINT", "OP_RETURN" >>, 1),
       writeAll(EmptyChunk, << "OP_PRINT", "OP_RETURN" >>, 1),
       writeAll(EmptyChunk, << "OP_NOT", "OP_PRINT", "OP_RETURN" >>, 1),
       writeAll(EmptyChunk, << "OP_EQUAL", "OP_PRINT", "OP_RETURN" >>, 1),
       writeAll(EmptyChunk, << "OP_ADD", "OP_PRINT", "OP_RETURN" >>, 1),
       writeAll(EmptyChunk, << "OP_GET_GLOBAL", "OP_PRINT", "OP_RETURN" >>, 1),
       writeAll(EmptyChunk, << "OP_TRUE", "OP_NIL" >>, 1),
       writeAll(writeValue(EmptyChunk, StrVal("a")), << "OP_TRUE", "OP_ADD", "OP_RETURN" >>, 1) >>

\* The operand values of the opcode matrix.
SampleValues ==
    << NilVal, BoolVal(TRUE), BoolVal(FALSE), NumVal(0, 1), NumVal(1, 1), NumVal(2, 1),
       StrVal(""), StrVal("a"), StrVal("b") >>

BinaryOps ==
    << "OP_ADD", "OP_SUBTRACT", "OP_MULTIPLY", "OP_DIVIDE", "OP_MODULO", "OP_EQUAL",
       "OP_LESS", "OP_GREATER", "OP_AND", "OP_OR" >>

UnaryOps == << "OP_NEGATE", "OP_NOT" >>

\* push a; push b; op; OP_PRINT; OP_RETURN
BinaryChunk(op, a, b) ==
    writeAll(writeValue(writeValue(EmptyChunk, a), b), << op, "OP_PRINT", "OP_RETURN" >>, 1)

\* push a; op; OP_PRINT; OP_RETURN
UnaryChunk(op, a) ==
    writeAll(writeValue(EmptyChunk, a), << op, "OP_PRINT", "OP_RETURN" >>, 1)

\* push a; OP_JUMP_IF_FALSE +2; print "then"; print "end"; OP_RETURN
BranchChunk(a) ==
    LET c1 == write(writeValue(EmptyChunk, a), "OP_JUMP_IF_FALSE", 2)
        c2 == write(writeValue(c1, StrVal("then")), "OP_PRINT", 0)
        c3 == write(writeValue(c2, StrVal("end")), "OP_PRINT", 0)
    IN  write(c3, "OP_RETURN", 0)

NValues == Len(SampleValues)
NBinary == Len(BinaryOps) * NValues * NValues
NUnary  == Len(UnaryOps) * NValues

\* The opcode matrix, numbered: the binary chunks, the unary ones, the branches.
OpChunk(i) ==
    IF i <= NBinary
    THEN BinaryChunk(BinaryOps[((i - 1) \div (NValues * NValues)) + 1],
                     SampleValues[(((i - 1) \div NValues) % NValues) + 1],
                     SampleValues[((i - 1) % NValues) + 1])
    ELSE IF i <= NBinary + NUnary
    THEN UnaryChunk(UnaryOps[((i - NBinary - 1) \div NValues) + 1],
                    SampleValues[((i - NBinary - 1) % NValues) + 1])
    ELSE BranchChunk(SampleValues[i - NBinary - NUnary])

OpChunkTable == [i \in 1..(NBinary + NUnary + NValues) |-> OpChunk(i)]

\* ------------------------------------------------------------------------
\* Chunk references.  A Chunk is immutable once built, so a `const Chunk&` or
\* `const Chunk*` is modelled by a name of the chunk:
\*   compiled i : what Compiler::compile returns for ProgramList[i]
\*   raw i      : RawChunkList[i]
\*   op i       : OpChunkTable[i]
\* ------------------------------------------------------------------------

NoChunk == [kind |-> "none", i |-> 0]
CompiledChunk(p) == [kind |-> "compiled", i |-> p]
RawChunk(i) == [kind |-> "raw", i |-> i]
OpChunkRef(i) == [kind |-> "op", i |-> i]

RawChunks == {RawChunk(i) : i \in 1..Len(RawChunkList)}
OpChunks  == {OpChunkRef(i) : i \in DOMAIN OpChunkTable}

\* Compiler::compile, the Chunk returned: Chunk() when lowering failed.
compiledChunk(g) == IF g.m_hadError THEN EmptyChunk ELSE g.m_chunk

\* The Chunk a reference names.
ChunkOf(ref) ==
    CASE ref.kind = "compiled" -> IF LexerErrors[ref.i] # "" THEN EmptyChunk
                                  ELSE compiledChunk(Compiled[ref.i])
      [] ref.kind = "raw"      -> RawChunkList[ref.i]
      [] ref.kind = "op"       -> OpChunkTable[ref.i]
      [] OTHER                 -> EmptyChunk

\* ------------------------------------------------------------------------
\* State
\* ------------------------------------------------------------------------

VARIABLES
    script,     \* the source text the driver feeds the Compiler, as its Program
    compiler,   \* the Compiler object: [m_error]
    irgen,      \* the IRGenerator of the latest Compiler::compile, as it left it
    source,     \* the Program of the latest Compiler::compile (0: none yet)
    held,       \* the Chunk the caller holds (returned by Compiler::compile, or built)
    vm,         \* the VM object: [m_chunk, m_ip, m_stack, m_error]
    phase,      \* "idle", or "running" inside VM::interpret
    steps,      \* iterations of the loop of the current interpret call
    output,     \* the lines the current or latest interpret call wrote to m_output
    vmResult,   \* what the latest interpret call returned ("NONE" until it returns)
    result,     \* what the latest Compiler::run call returned ("NONE" until it returns)
    prev        \* history: result and output of the interpret call before the
                \* current one, when that call ran the same chunk

vars == << script, compiler, irgen, source, held, vm, phase, steps, output, vmResult, result, prev >>

NoRun == [same |-> FALSE, result |-> "NONE", output |-> <<>>]

\* The state after `Compiler compiler;`.
InitObjects ==
    /\ compiler = [m_error |-> ""]
    /\ irgen = IRGeneratorNew
    /\ source = 0
    /\ vm = VMNew
    /\ phase = "idle"
    /\ steps = 0
    /\ output = <<>>
    /\ vmResult = "NONE"
    /\ result = "NONE"
    /\ prev = NoRun

Init == InitObjects /\ held = NoChunk /\ script \in Programs /\ FrontEnd(script)

\* Compiler::hadError
hadError == compiler.m_error # ""

\* The part of Compiler::run(const Chunk&) up to and including the entry of
\* VM::interpret (m_vm is never null).
EnterInterpret(ref) ==
    /\ vm' = interpretEntry(vm, ref)
    /\ phase' = "running"
    /\ steps' = 0
    /\ output' = <<>>
    /\ vmResult' = "NONE"
    /\ result' = "NONE"
    /\ prev' = IF vmResult # "NONE" /\ ChunkOf(vm.m_chunk) = ChunkOf(ref)
               THEN [same |-> TRUE, result |-> vmResult, output |-> output]
               ELSE NoRun

\* Compiler::compile(source) for the source text of ProgramList[p].
CompilerCompile(p) ==
    /\ phase = "idle"
    /\ irgen' = IF LexerErrors[p] # "" THEN irgen ELSE Compiled[p]
    /\ source' = p
    /\ compiler' = [compiler EXCEPT !.m_error = CompileError(p)]
    /\ held' = CompiledChunk(p)
    /\ UNCHANGED << script, vm, phase, steps, output, vmResult, result, prev >>

\* Compiler::run(source) for the source text that parses to ProgramList[p]:
\* compile, then COMPILE_ERROR or run(chunk) up to the entry of interpret.
CompilerRunSource(p) ==
    /\ phase = "idle"
    /\ irgen' = IF LexerErrors[p] # "" THEN irgen ELSE Compiled[p]
    /\ source' = p
    /\ compiler' = [compiler EXCEPT !.m_error = CompileError(p)]
    /\ IF CompileError(p) # ""
       THEN /\ result' = "COMPILE_ERROR"
            /\ UNCHANGED << vm, phase, steps, output, vmResult, prev >>
       ELSE EnterInterpret(CompiledChunk(p))
    /\ UNCHANGED << script, held >>

\* Compiler::run(chunk), up to the entry of interpret.  m_error is not cleared.
CompilerRunChunk(ref) ==
    /\ phase = "idle"
    /\ ref # NoChunk
    /\ EnterInterpret(ref)
    /\ UNCHANGED << script, compiler, irgen, source, held >>

\* What an OP_CONSTANT may read outside the constant pool.
JunkValues == {NilVal, NumVal(1, 1), StrVal("junk")}

\* The junk the next instruction can read: none to choose when it reads inside
\* the pool.
JunkHere ==
    LET chunk       == ChunkOf(vm.m_chunk)
        instruction == readInstruction(vm, chunk)
    IN  IF instruction.opcode = "OP_CONSTANT"
           /\ instruction.operand >= Len(chunk.constants)
        THEN JunkValues ELSE {NilVal}

\* One iteration of the loop of VM::interpret; when it returns, the rest of
\* Compiler::run(chunk): a result other than OK copies the VM's message.
Step ==
    /\ phase = "running"
    /\ steps < MaxSteps
    /\ \E junk \in JunkHere :
          LET r == execute(vm, ChunkOf(vm.m_chunk), junk)
          IN  /\ vm' = r.vm
              /\ output' = output \o r.printed
              /\ steps' = steps + 1
              /\ vmResult' = r.ret
              /\ result' = r.ret
              /\ phase' = IF r.ret = "NONE" THEN "running" ELSE "idle"
              /\ compiler' = IF r.ret \in {"NONE", "OK"} THEN compiler
                             ELSE [compiler EXCEPT !.m_error = r.vm.m_error]
    /\ UNCHANGED << script, irgen, source, held, prev >>

\* The caller may run the chunk it holds or a hand-built one.
Runnable == (IF held = NoChunk THEN {} ELSE {held}) \cup RawChunks

Next ==
    \/ CompilerCompile(script)
    \/ CompilerRunSource(script)
    \/ \E ref \in Runnable : CompilerRunChunk(ref)
    \/ Step

Spec == Init /\ [][Next]_vars

\* The opcode matrix: the caller holds one hand-built chunk of the matrix and
\* runs it, any number of times.
InitVM == InitObjects /\ held \in OpChunks /\ script = 1

NextVM ==
    \/ CompilerRunChunk(held)
    \/ Step

SpecVM == InitVM /\ [][NextVM]_vars

\* ------------------------------------------------------------------------
\* The walk of one compile, call by call: irgen is the generator during
\* IRGenerator::compile, and each action is one call the walk over a Program of
\* nested blocks and let declarations makes.
\* ------------------------------------------------------------------------

\* The names the let declarations of the walk declare.
WalkNames == {"x", "y"}

\* The start of IRGenerator::compile: the members are reset and the outermost
\* scope is opened.
WalkCompileBegin ==
    /\ irgen.m_scopeDepth = 0
    /\ Len(irgen.m_chunk.code) < MaxWalkCode
    /\ irgen' = beginScope(IRGeneratorNew)
    /\ UNCHANGED << script, compiler, source, held, vm, phase, steps, output, vmResult,
                    result, prev >>

\* The walk may go on: inside a block always, between two top-level statements
\* only while the error flag is clear.
WalkGoesOn ==
    /\ irgen.m_scopeDepth >= 1
    /\ irgen.m_scopeDepth = 1 => ~irgen.m_hadError
    /\ Len(irgen.m_chunk.code) < MaxWalkCode

\* compileBlockStmt, its beginScope.
WalkBlockBegin ==
    /\ WalkGoesOn
    /\ irgen.m_scopeDepth < MaxWalkDepth
    /\ irgen' = beginScope(irgen)
    /\ UNCHANGED << script, compiler, source, held, vm, phase, steps, output, vmResult,
                    result, prev >>

\* compileLetStmt for `let name = 1;`.
WalkLet(name) ==
    /\ WalkGoesOn
    /\ irgen' = compileLetStmt(irgen, LetStmt(name, LiteralExpr(NumVal(1, 1))))
    /\ UNCHANGED << script, compiler, source, held, vm, phase, steps, output, vmResult,
                    result, prev >>

\* compileBlockStmt, its endScope.
WalkBlockEnd ==
    /\ irgen.m_scopeDepth >= 2
    /\ irgen' = endScope(irgen)
    /\ UNCHANGED << script, compiler, source, held, vm, phase, steps, output, vmResult,
                    result, prev >>

\* The end of IRGenerator::compile after the last top-level statement.
WalkCompileEnd ==
    /\ irgen.m_scopeDepth = 1
    /\ ~irgen.m_hadError
    /\ irgen' = emitByte(endScope(irgen), "OP_RETURN", 0)
    /\ UNCHANGED << script, compiler, source, held, vm, phase, steps, output, vmResult,
                    result, prev >>

InitWalk == InitObjects /\ held = NoChunk /\ script = 1

NextWalk ==
    \/ WalkCompileBegin
    \/ WalkBlockBegin
    \/ \E name \in WalkNames : WalkLet(name)
    \/ WalkBlockEnd
    \/ WalkCompileEnd

SpecWalk == InitWalk /\ [][NextWalk]_vars

\* ------------------------------------------------------------------------
\* Vocabulary of the properties
\* ------------------------------------------------------------------------

\* The latest interpret call has returned, and it ran what Compiler::compile
\* returned for ProgramList[p].
RanProgram(p) ==
    phase = "idle" /\ vmResult # "NONE" /\ vm.m_chunk = CompiledChunk(p)

\* The instruction the next iteration of the loop of interpret executes.
NextInstruction == readInstruction(vm, ChunkOf(vm.m_chunk))

\* The operand stack from the top: the k-th value (Value() below the bottom, as
\* pop returns on an empty stack) and what is left under the top k values.
FromTop(k) ==
    IF Len(vm.m_stack) >= k THEN vm.m_stack[Len(vm.m_stack) - k + 1] ELSE NilVal

Under(k) ==
    IF Len(vm.m_stack) >= k THEN SubSeq(vm.m_stack, 1, Len(vm.m_stack) - k) ELSE <<>>

\* The opcode of the last instruction of a chunk.
LastOpcode(chunk) ==
    IF chunk.code = <<>> THEN "none" ELSE chunk.code[Len(chunk.code)].opcode

\* The identifiers of the Programs, and the duplicate-declaration messages.
Identifiers == {"x", "y", "f", "a", "b"}

DuplicateMessages ==
    {"Variable '" \o name \o "' already declared in this scope." : name \in Identifiers}

\* The operands of an expression node.
ExprOperands(expr) ==
    CASE expr.type = "Binary"     -> << expr.left, expr.right >>
      [] expr.type = "Unary"      -> << expr.right >>
      [] expr.type = "Assignment" -> << expr.value >>
      [] expr.type = "Call"       -> << expr.callee >> \o expr.arguments
      [] expr.type = "Grouping"   -> << expr.expression >>
      [] OTHER                    -> << >>

\* Static scoping, by the language's rules and not by the generator: every
\* identifier read or assigned in the expression is among `names`.
RECURSIVE ExprRefsDeclared(_, _)
ExprRefsDeclared(names, expr) ==
    /\ expr.type \in {"Variable", "Assignment"} => expr.name \in names
    /\ \A i \in DOMAIN ExprOperands(expr) : ExprRefsDeclared(names, ExprOperands(expr)[i])

\* The names in scope after a statement of a statement list.
Declaring(names, stmt) ==
    IF stmt.type \in {"Let", "Function"} THEN names \cup {stmt.name} ELSE names

\* The statements and the expressions directly inside a statement, and the
\* names in scope in them.  A let's name is in scope in its initializer, a
\* function's name and parameters in its body.
StmtParts(stmt) ==
    CASE stmt.type = "If"       -> << stmt.thenBranch, stmt.elseBranch >>
      [] stmt.type = "While"    -> << stmt.body >>
      [] stmt.type = "Block"    -> stmt.statements
      [] stmt.type = "Function" -> stmt.body
      [] OTHER                  -> << >>

StmtExprs(stmt) ==
    CASE stmt.type \in {"Expression", "Print"} -> << stmt.expression >>
      [] stmt.type = "Let"                     -> << stmt.initializer >>
      [] stmt.type \in {"If", "While"}         -> << stmt.condition >>
      [] stmt.type = "Return"                  -> << stmt.value >>
      [] OTHER                                 -> << >>

Inside(names, stmt) ==
    CASE stmt.type = "Let"      -> names \cup {stmt.name}
      [] stmt.type = "Function" ->
             names \cup {stmt.name} \cup {stmt.params[i] : i \in DOMAIN stmt.params}
      [] OTHER                  -> names

\* Every identifier reference of statements i.. of the list names a declaration
\* in scope.  The branches of an if and the body of a while are single
\* statements that declare nothing, so a list of them scopes like a block.
RECURSIVE StmtsRefsDeclared(_, _, _)
StmtsRefsDeclared(names, statements, i) ==
    IF i > Len(statements) THEN TRUE
    ELSE /\ \A k \in DOMAIN StmtExprs(statements[i]) :
               ExprRefsDeclared(Inside(names, statements[i]), StmtExprs(statements[i])[k])
         /\ StmtsRefsDeclared(Inside(names, statements[i]), StmtParts(statements[i]), 1)
         /\ StmtsRefsDeclared(Declaring(names, statements[i]), statements, i + 1)

RefsDeclared(program) == StmtsRefsDeclared({}, program, 1)

\* Two declarations of one name directly in the same statement list.
DeclaredTwice(statements) ==
    \E i, j \in DOMAIN statements :
        /\ i < j
        /\ statements[i].type \in {"Let", "Function"}
        /\ statements[j].type \in {"Let", "Function"}
        /\ statements[i].name = statements[j].name

\* Some block of the statement list, itself included, declares a name twice.
RECURSIVE SomeBlockDeclaresTwice(_)
SomeBlockDeclaresTwice(statements) ==
    \/ DeclaredTwice(statements)
    \/ \E i \in DOMAIN statements : SomeBlockDeclaresTwice(StmtParts(statements[i]))

\* The number of instructions a statement, or an expression, lowers to on its
\* own.
LoweredStmt(stmt) == Len(compileStmt(beginScope(IRGeneratorNew), stmt).m_chunk.code)

LoweredExpr(expr) == Len(compileExpr(beginScope(IRGeneratorNew), expr).m_chunk.code)

\* A Program of one if or while statement whose condition and branches lower
\* without an error of their own.
BranchProgram(program) ==
    /\ Len(program) = 1
    /\ program[1].type \in {"If", "While"}
    /\ ~compileExpr(beginScope(IRGeneratorNew), program[1].condition).m_hadError
    /\ \A i \in DOMAIN StmtParts(program[1]) :
           ~compileStmt(beginScope(IRGeneratorNew), StmtParts(program[1])[i]).m_hadError

\* A Program of if, while and print statements only, with an if or a while: it
\* declares nothing, so the operand stack is empty before each statement.
ControlFlowProgram(program) ==
    /\ \A i \in DOMAIN program : program[i].type \in {"If", "While", "Print"}
    /\ \E i \in DOMAIN program : program[i].type \in {"If", "While"}

\* The chunk has an OP_GET_LOCAL, an OP_SET_LOCAL or an OP_CALL.
HasLocalOrCall(chunk) ==
    \E i \in DOMAIN chunk.code :
        chunk.code[i].opcode \in {"OP_GET_LOCAL", "OP_SET_LOCAL", "OP_CALL"}

\* The latest interpret call has returned, and it ran what Compiler::compile
\* returned for the Program Ran.
RanCompiled == phase = "idle" /\ vmResult # "NONE" /\ vm.m_chunk.kind = "compiled"

Ran == ProgramList[vm.m_chunk.i]

\* The Program of the latest Compiler::compile.
Source == ProgramList[source]

\* ------------------------------------------------------------------------
\* Properties
\* ------------------------------------------------------------------------

\* C1: interpret starts every call with the instruction pointer at 0, the
\* operand stack empty and the error message clear, and two consecutive
\* interpret calls on the same Chunk return the same result and write the same
\* lines, whatever the VM ran before them.
C1_InterpretReplayable ==
    /\ (phase = "running" /\ steps = 0) =>
           (vm.m_ip = 0 /\ vm.m_stack = <<>> /\ vm.m_error = "")
    /\ (prev.same /\ vmResult # "NONE") =>
           (vmResult = prev.result /\ output = prev.output)

\* C1 witness: a second consecutive run of a chunk that prints and then fails
\* has returned.
C1_Witness ==
    prev.same /\ vmResult = "RUNTIME_ERROR" /\ output # <<>>

C3_Original ==
    source # 0 =>
        ((irgen.m_hadError /\ irgen.m_error \in DuplicateMessages)
            <=> SomeBlockDeclaresTwice(Source))

\* C4 as stated: the run of { let x = 1; { let x = 2; print x; } print x; }
\* prints 2 and then 1.
C4_Original ==
    (RanCompiled /\ Ran = ShadowingProgram) =>
        (vmResult = "OK" /\ output = << "2", "1" >>)

\* C5 as stated: when the code lowered from if and while statements has run,
\* the operand stack is as deep as before them (empty, in a Program that
\* declares nothing).
C5_Original ==
    (RanCompiled /\ ControlFlowProgram(Ran) /\ vmResult = "OK") => vm.m_stack = <<>>

\* C6 as stated: the run of let x = 0; while (x < 3) { print x; x = x + 1; }
\* prints 0, 1, 2 and ends with OK and no error.
C6_Original ==
    (RanCompiled /\ Ran = testWhileLoop) =>
        (vmResult = "OK" /\ output = << "0", "1", "2" >> /\ ~hadError)

\* C7 as stated: an if or while with a branch body of exactly 255 instructions
\* compiles, one with a branch body of 256 fails with "Jump too far."
C7_Original ==
    (source # 0 /\ BranchProgram(Source)) =>
        \A i \in DOMAIN StmtParts(Source[1]) :
            /\ LoweredStmt(StmtParts(Source[1])[i]) = 255 => ~irgen.m_hadError
            /\ LoweredStmt(StmtParts(Source[1])[i]) = 256 =>
                   (irgen.m_hadError /\ irgen.m_error = "Jump too far.")

\* C7, amended: what must fit the operand is the distance jumped, which is one
\* more than the then-branch (the jump over the else-branch follows it).  An if
\* compiles exactly when its then-branch has at most 254 instructions and its
\* else-branch at most 255, and fails with "Jump too far." otherwise.  A while
\* compiles exactly when its condition and body have at most 254 instructions
\* together; beyond that it fails with "Loop body too large.", and with "Jump
\* too far." once the body alone has more than 255.
C7_JumpBoundary ==
    (source # 0 /\ BranchProgram(Source)) =>
        IF Source[1].type = "If"
        THEN /\ irgen.m_hadError <=>
                    \/ LoweredStmt(Source[1].thenBranch) + 1 > 255
                    \/ LoweredStmt(Source[1].elseBranch) > 255
             /\ irgen.m_hadError => irgen.m_error = "Jump too far."
        ELSE /\ irgen.m_hadError <=>
                    LoweredExpr(Source[1].condition) + 1 + LoweredStmt(Source[1].body) > 255
             /\ irgen.m_hadError =>
                    irgen.m_error = IF LoweredStmt(Source[1].body) > 255
                                    THEN "Jump too far." ELSE "Loop body too large."

\* C7 witness: an if whose then-branch has exactly 255 instructions has been
\* rejected.
C7_Witness ==
    /\ source # 0 /\ BranchProgram(Source) /\ Source[1].type = "If"
    /\ LoweredStmt(Source[1].thenBranch) = 255
    /\ irgen.m_error = "Jump too far."

\* C8 as stated: every Program that compiles to a Chunk with an OP_GET_LOCAL, an
\* OP_SET_LOCAL or an OP_CALL ends its run with RUNTIME_ERROR and one of the two
\* "not fully implemented" messages.
C8_Original ==
    (RanCompiled /\ ~Compiled[vm.m_chunk.i].m_hadError
                 /\ HasLocalOrCall(Compiled[vm.m_chunk.i].m_chunk)) =>
        /\ vmResult = "RUNTIME_ERROR"
        /\ vm.m_error \in {"Local variables not fully implemented.",
                           "Function calls not fully implemented."}

\* C8, amended: executing OP_GET_LOCAL, OP_SET_LOCAL or OP_CALL stops the run at
\* once: interpret returns RUNTIME_ERROR with the message of that instruction,
\* nothing is written and the stack is left as it was.  (So a run that reaches
\* such an instruction ends with that error; a Program that only contains one,
\* in a branch not taken or after an earlier fault, need not.)
C8_UnimplementedStops ==
    [][(phase = "running"
            /\ NextInstruction.opcode \in {"OP_GET_LOCAL", "OP_SET_LOCAL", "OP_CALL"}) =>
        /\ phase' = "idle"
        /\ vmResult' = "RUNTIME_ERROR"
        /\ result' = "RUNTIME_ERROR"
        /\ vm'.m_error = IF NextInstruction.opcode = "OP_CALL"
                         THEN "Function calls not fully implemented."
                         ELSE "Local variables not fully implemented."
        /\ compiler'.m_error = vm'.m_error
        /\ output' = output
        /\ vm'.m_stack = vm.m_stack]_vars

\* C8 witness: a run has been stopped by an OP_CALL after the callee and the
\* argument were pushed.
C8_Witness ==
    /\ RanCompiled /\ vmResult = "RUNTIME_ERROR"
    /\ vm.m_error = "Function calls not fully implemented."
    /\ Len(vm.m_stack) = 2

\* C9: OP_ADD pops the right operand, then the left one; two Numbers give their
\* sum, two Texts the left text followed by the right one; any other pair
\* pushes nothing and makes interpret return RUNTIME_ERROR with "Operands must
\* be two numbers or two strings."
C9_AddMatrix ==
    [][(phase = "running" /\ NextInstruction.opcode = "OP_ADD") =>
        IF isNumber(FromTop(2)) /\ isNumber(FromTop(1))
        THEN /\ vm'.m_stack =
                    Append(Under(2),
                           NumVal(FromTop(2).num * FromTop(1).den
                                      + FromTop(1).num * FromTop(2).den,
                                  FromTop(2).den * FromTop(1).den))
             /\ vmResult' = "NONE"
        ELSE IF isString(FromTop(2)) /\ isString(FromTop(1))
        THEN /\ vm'.m_stack = Append(Under(2), StrVal(FromTop(2).s \o FromTop(1).s))
             /\ vmResult' = "NONE"
        ELSE /\ vm'.m_stack = Under(2)
             /\ vmResult' = "RUNTIME_ERROR"
             /\ phase' = "idle"
             /\ vm'.m_error = "Operands must be two numbers or two strings."]_vars

\* C9 witness: "a" + "b" has been run and has printed ab.
C9_Witness ==
    /\ phase = "idle" /\ vmResult = "OK" /\ output = << "ab" >>
    /\ ChunkOf(vm.m_chunk).code[3].opcode = "OP_ADD"

\* C10: with two Number operands and a zero right operand, OP_DIVIDE makes
\* interpret return RUNTIME_ERROR with "Division by zero." and OP_MODULO with
\* "Modulo by zero."; no value is pushed and no later instruction runs.
C10_ZeroDivisor ==
    [][(phase = "running" /\ NextInstruction.opcode \in {"OP_DIVIDE", "OP_MODULO"}
            /\ isNumber(FromTop(2)) /\ isNumber(FromTop(1)) /\ FromTop(1).num = 0) =>
        /\ vmResult' = "RUNTIME_ERROR"
        /\ result' = "RUNTIME_ERROR"
        /\ phase' = "idle"
        /\ vm'.m_error = IF NextInstruction.opcode = "OP_DIVIDE"
                         THEN "Division by zero." ELSE "Modulo by zero."
        /\ vm'.m_stack = Under(2)
        /\ output' = output]_vars

\* C10 witness: 2 % 0 has been run and has failed.
C10_Witness ==
    /\ phase = "idle" /\ vmResult = "RUNTIME_ERROR" /\ vm.m_error = "Modulo by zero."
    /\ ChunkOf(vm.m_chunk).code[3].opcode = "OP_MODULO"
    /\ output = <<>>

\* The number of values an instruction pops.
Pops(op) ==
    CASE op \in {"OP_ADD", "OP_SUBTRACT", "OP_MULTIPLY", "OP_DIVIDE", "OP_MODULO",
                 "OP_EQUAL", "OP_LESS", "OP_GREATER", "OP_AND", "OP_OR"} -> 2
      [] op \in {"OP_NEGATE", "OP_NOT", "OP_POP", "OP_PRINT"} -> 1
      [] OTHER -> 0

\* C11: OP_EQUAL pops two values and pushes whether they are equal, by tag
\* first and then by value: different tags are never equal, Nil equals Nil, and
\* two Booleans, Numbers or Texts are equal exactly when their values are; for
\* no pair of operand kinds does the instruction raise a runtime error.
C11_EqualByTypeThenValue ==
    [][(phase = "running" /\ NextInstruction.opcode = "OP_EQUAL") =>
        /\ vm'.m_stack =
               Append(Under(2),
                      BoolVal(/\ FromTop(2).type = FromTop(1).type
                              /\ isBool(FromTop(2))   => FromTop(2).b = FromTop(1).b
                              /\ isNumber(FromTop(2)) =>
                                     FromTop(2).num * FromTop(1).den
                                         = FromTop(1).num * FromTop(2).den
                              /\ isString(FromTop(2)) => FromTop(2).s = FromTop(1).s))
        /\ vmResult' = "NONE"
        /\ phase' = "running"
        /\ vm'.m_error = ""]_vars

\* C11 witness: 0 == false has been run and has printed false.
C11_Witness ==
    /\ phase = "idle" /\ vmResult = "OK" /\ output = << "false" >>
    /\ ChunkOf(vm.m_chunk).code[3].opcode = "OP_EQUAL"
    /\ ChunkOf(vm.m_chunk).code[2].opcode = "OP_FALSE"
    /\ ChunkOf(vm.m_chunk).constants = << NumVal(0, 1) >>

\* C12 as stated: an instruction that pops from an empty operand stack makes
\* interpret return RUNTIME_ERROR at once with the stack-underflow message, and
\* nothing more is written.
C12_Original ==
    [][(phase = "running" /\ Pops(NextInstruction.opcode) > Len(vm.m_stack)) =>
        /\ phase' = "idle"
        /\ vmResult' = "RUNTIME_ERROR"
        /\ vm'.m_error = "Stack underflow."
        /\ output' = output]_vars


\* The lines Parser::parse wrote to std::cerr for the source text of each
\* Program; the Programs given as syntax trees have a text that parses cleanly.
ParseErrors ==
    Table([p \in Programs |->
        IF p > Len(HandPrograms) THEN Front[p - Len(HandPrograms)].errors ELSE <<>>])

\* The state is that of Compiler::run(source), during the call or after it, and
\* no other call of the Compiler has come since.
InRunSource == held = NoChunk /\ source # 0 /\ vm.m_chunk.kind # "raw"

\* C13: if the parser reports at least one parse error for a source text,
\* Compiler::run(source) executes no bytecode (the VM prints nothing) and
\* returns COMPILE_ERROR with hadError() true.
C13_Original ==
    (InRunSource /\ ParseErrors[source] # <<>>) =>
        /\ phase = "idle"
        /\ result = "COMPILE_ERROR"
        /\ hadError
        /\ output = <<>>
        /\ vm = VMNew

\* The Tokens of type ERROR that scanToken returns in the loop of tokenize.
RECURSIVE scanErrors(_)
errorsFrom(scanned) ==
    (IF scanned.token.type = "ERROR" THEN << scanned.token >> ELSE <<>>)
        \o scanErrors(scanned.lexer)

scanErrors(lx) ==
    IF LexerIsAtEnd(lx) THEN <<>> ELSE errorsFrom(scanToken(startToken(lx)))

\* The ERROR Tokens for an unrecognized character or an unterminated text
\* literal, per Program.
LexerFaults ==
    Table([p \in Programs |->
        IF p > Len(HandPrograms)
        THEN SelectSeq(scanErrors(LexerNew(SourceList[p - Len(HandPrograms)])),
                       LAMBDA token :
                           \/ token.lexeme = "Unterminated string"
                           \/ \E i \in DOMAIN SourceList[p - Len(HandPrograms)] :
                                 token.lexeme = "Unexpected character: "
                                                    \o SourceList[p - Len(HandPrograms)][i])
        ELSE <<>>])

\* C14: if the source text contains an unrecognized character or an
\* unterminated text literal, Compiler::compile records a lexer-stage
\* diagnostic, nothing after the Lexer runs, and Compiler::run(source) returns
\* COMPILE_ERROR.
C14_Original ==
    (InRunSource /\ LexerFaults[source] # <<>>) =>
        /\ phase = "idle"
        /\ result = "COMPILE_ERROR"
        /\ compiler.m_error = lexerError(LexerFaults[source])
        /\ irgen = IRGeneratorNew
        /\ vm = VMNew


\* C15: when lowering raises a compile error, Compiler::compile returns an empty
\* Chunk and leaves a non-empty message, and Compiler::run(source) returns
\* COMPILE_ERROR without invoking VM::interpret, so nothing is printed.
C15_LoweringErrorStops ==
    (source # 0 /\ irgen.m_hadError) =>
        /\ ChunkOf(CompiledChunk(source)) = EmptyChunk
        /\ hadError
        /\ InRunSource =>
              /\ phase = "idle"
              /\ result = "COMPILE_ERROR"
              /\ compiler.m_error = irgen.m_error
              /\ vm = VMNew
              /\ output = <<>>

\* Compiler::run(source) has returned COMPILE_ERROR for a Program that declares
\* a local twice in one scope.
C15_Witness ==
    /\ InRunSource
    /\ irgen.m_hadError
    /\ DeclaredTwice(Source)
    /\ result = "COMPILE_ERROR"
    /\ vm = VMNew


\* How many OP_CONSTANT instructions the first n instructions of `code` hold:
\* writeConstant appends one constant and one OP_CONSTANT, so the k-th
\* OP_CONSTANT of a compiled Chunk was emitted for the k-th constant of the pool.
RECURSIVE ConstantsEmitted(_, _)
ConstantsEmitted(code, n) ==
    IF n = 0 THEN 0
    ELSE ConstantsEmitted(code, n - 1) + (IF code[n].opcode = "OP_CONSTANT" THEN 1 ELSE 0)

\* C16: a program whose literals need a constant-pool index above 255 fails to
\* compile, and in a chunk compiled without error each OP_CONSTANT, when
\* executed, loads the value of the literal it was emitted for.
C16_Original ==
    [][/\ (source' # 0 /\ Len(irgen'.m_chunk.constants) > OperandRange) =>
              irgen'.m_hadError
       /\ (/\ phase = "running"
           /\ vm.m_chunk.kind = "compiled"
           /\ NextInstruction.opcode = "OP_CONSTANT") =>
              /\ vm'.m_stack # <<>>
              /\ vm'.m_stack[Len(vm'.m_stack)] =
                     ChunkOf(vm.m_chunk).constants[
                         ConstantsEmitted(ChunkOf(vm.m_chunk).code, vm.m_ip + 1)]]_vars


\* The source texts of SourceList that exercise the precedence levels and
\* associativity.
PrecedenceTexts == {13, 14, 15, 16, 17, 18, 19, 20, 21, 22, 23, 24, 44, 45}

\* What each of them prints when it runs.
PrecedencePrints ==
    { \* print 1 + 2 * 3;  is 1 + (2 * 3)
      << 13, "7" >>,
      \* print 8 - 3 - 2;  is (8 - 3) - 2
      << 14, "3" >>,
      \* print 2 * 3 + 4;  is (2 * 3) + 4
      << 15, "10" >>,
      \* print 10 - 4 / 2;  is 10 - (4 / 2)
      << 16, "8" >>,
      \* print 1 + 2 == 3;  is (1 + 2) == 3
      << 17, "true" >>,
      \* print 1 < 2 == true;  is (1 < 2) == true
      << 18, "true" >>,
      \* print -2 * 3;  is (-2) * 3
      << 19, "-6" >>,
      \* print 2 + 3 < 4 * 5;  is (2 + 3) < (4 * 5)
      << 20, "true" >>,
      \* print 7 % 4 * 2;  is (7 % 4) * 2
      << 21, "6" >>,
      \* print - 1 - - 2;  is (-1) - (-2)
      << 22, "1" >>,
      \* print 12 / 2 / 3;  is (12 / 2) / 3
      << 23, "2" >>,
      \* print 1 == 2 != true;  is (1 == 2) != true
      << 24, "true" >> }

\* The tokens of `print true || false || true && false == true;`, handed to the
\* Parser directly.
LogicalTokens ==
    << Token("PRINT", "print", 1, 1, NilVal), Token("TRUE", "true", 1, 1, NilVal),
       Token("OR", "||", 1, 1, NilVal), Token("FALSE", "false", 1, 1, NilVal),
       Token("OR", "||", 1, 1, NilVal), Token("TRUE", "true", 1, 1, NilVal),
       Token("AND", "&&", 1, 1, NilVal), Token("FALSE", "false", 1, 1, NilVal),
       Token("EQUAL_EQUAL", "==", 1, 1, NilVal), Token("TRUE", "true", 1, 1, NilVal),
       Token("SEMICOLON", ";", 1, 1, NilVal), Token("EOF_TOKEN", "", 1, 1, NilVal) >>

LogicalParsed == parse(LogicalTokens)

\* (true || false) || (true && (false == true))
LogicalTree ==
    << PrintStmt(Bin(Bin(True, "OR", "||", False), "OR", "||",
                     Bin(True, "AND", "&&", Bin(False, "EQUAL_EQUAL", "==", True)))) >>

\* C17: the parser builds expression trees by the precedence assignment,
\* logical-or, logical-and, equality, comparison, additive, multiplicative,
\* unary, call, primary, binary operators of one level associating to the
\* left; `print 1 + 2 * 3;` compiles and runs without error and prints 7, and
\* `8 - 3 - 2` evaluates to 3.
C17_PrecedenceAndAssociativity ==
    /\ \A t \in PrecedenceTexts : Front[t] = Parsed(TextPrograms[t], <<>>)
    /\ LogicalParsed = Parsed(LogicalTree, <<>>)
    /\ \A c \in PrecedencePrints :
          RanProgram(Len(HandPrograms) + c[1]) =>
              /\ vmResult = "OK"
              /\ output = << c[2] >>
              /\ InRunSource => (result = "OK" /\ ~hadError)

\* Compiler::run has run `print 8 - 3 - 2;` and it printed 3.
C17_Witness ==
    /\ InRunSource
    /\ RanProgram(Len(HandPrograms) + 14)
    /\ Front[14].program = Source
    /\ result = "OK"
    /\ output = << "3" >>


\* The source texts of SourceList with a logical operator: the token type the
\* operator is to become, the opcode it is to be lowered to, and what the text
\* is to print.
LogicalCases ==
    { \* print true && false;
      << 1, "AND", "OP_AND", "false" >>,
      \* print true || false;
      << 2, "OR", "OP_OR", "true" >>,
      \* print !true;
      << 3, "BANG", "OP_NOT", "false" >>,
      \* print !false;
      << 4, "BANG", "OP_NOT", "true" >> }

\* C18: Compiler::run on `print a && b;`, `print a || b;` and `print !a;`
\* tokenizes the operator as an AND, OR or BANG token, lowers it to OP_AND,
\* OP_OR or OP_NOT, returns OK with hadError() false, and prints the
\* conjunction, disjunction or negation.
C18_Original ==
    \A c \in LogicalCases :
        (InRunSource /\ source = Len(HandPrograms) + c[1] /\ phase = "idle") =>
            /\ \E i \in DOMAIN Tokens[c[1]] : Tokens[c[1]][i].type = c[2]
            /\ \E i \in DOMAIN irgen.m_chunk.code : irgen.m_chunk.code[i].opcode = c[3]
            /\ result = "OK"
            /\ ~hadError
            /\ output = << c[4] >>


\* The number of if statements among `statements` and the statements nested
\* in them (the body of a function is not lowered).
RECURSIVE IfStatements(_)
IfStatements(statements) ==
    IF statements = <<>> THEN 0
    ELSE IfStatements(Tail(statements)) +
         CASE Head(statements).type = "If" ->
                  1 + IfStatements(<< Head(statements).thenBranch >>)
                    + IfStatements(<< Head(statements).elseBranch >>)
           [] Head(statements).type = "While" -> IfStatements(<< Head(statements).body >>)
           [] Head(statements).type = "Block" -> IfStatements(Head(statements).statements)
           [] OTHER -> 0

\* The C++ indices of the instructions of `code` with opcode `op`.
InstructionsOf(code, op) == { i - 1 : i \in { j \in DOMAIN code : code[j].opcode = op } }

\* Every if statement lowered without error leaves one OP_JUMP in the chunk,
\* with or without an else-branch.
JumpPerIf ==
    \A p \in Programs :
        ~Compiled[p].m_hadError =>
            Cardinality(InstructionsOf(Compiled[p].m_chunk.code, "OP_JUMP"))
                = IfStatements(ProgramList[p])

\* The source texts of SourceList with an if statement, and what each prints.
IfPrints ==
    { \* if (true) print "t"; else print "f"; print "end";
      << 36, << "t", "end" >> >>,
      \* if (false) print "t"; else print "f"; print "end";
      << 37, << "f", "end" >> >>,
      \* if (0) print "t"; print "end";
      << 38, << "end" >> >>,
      \* if (1) print "t"; print "end";
      << 39, << "t", "end" >> >>,
      \* if ("") print "t"; else print "f"; print "end";
      << 40, << "t", "end" >> >>,
      \* if (1 > 2) print "t"; else print "f"; print "end";
      << 41, << "f", "end" >> >>,
      \* if (false) print "t"; else if (true) print "g"; else print "f"; print "end";
      << 42, << "g", "end" >> >>,
      \* if (false) print "t"; print "end";
      << 47, << "end" >> >>,
      \* if (true) { print "yes"; } else { print "no"; }
      << 48, << "yes" >> >> }

\* The source texts of IfPrints whose if statement has no else-branch.
IfWithoutElse == {38, 39, 47}

\* C19: an if statement runs its then-branch when the condition is truthy and
\* its else-branch (or nothing) when it is falsey, never both; execution goes on
\* after the if statement and the run ends OK; the OP_JUMP after the
\* then-branch is emitted even without an else-branch (there, with offset 0).
C19_IfRunsOnePath ==
    /\ JumpPerIf
    /\ \A t \in IfWithoutElse :
           /\ Front[t].program[1].elseBranch = NullStmt
           /\ Compiled[Len(HandPrograms) + t].m_chunk.code[5] =
                  [opcode |-> "OP_JUMP", operand |-> 0]
    /\ \A c \in IfPrints :
           RanProgram(Len(HandPrograms) + c[1]) =>
               /\ vmResult = "OK"
               /\ output = c[2]
               /\ vm.m_ip = Len(ChunkOf(vm.m_chunk).code)
               /\ (InRunSource => (result = "OK" /\ ~hadError))

\* Compiler::run has run `if (false) print "t"; print "end";`: the
\* then-branch was skipped and the statement after the if was executed.
C19_Witness ==
    /\ InRunSource
    /\ RanProgram(Len(HandPrograms) + 47)
    /\ Front[47].program = Source
    /\ Source[1].elseBranch = NullStmt
    /\ result = "OK"
    /\ output = << "end" >>


\* The source texts of SourceList that print one binary expression `a op b`
\* with a non-commutative operator: the opcode of the operator and what the
\* text prints.
OperandOrderCases ==
    { \* print 5 - 3;
      << 25, "OP_SUBTRACT", "2" >>,
      \* print 3 - 5;
      << 26, "OP_SUBTRACT", "-2" >>,
      \* print 7 / 2;
      << 27, "OP_DIVIDE", "3.5" >>,
      \* print 7 % 3;
      << 28, "OP_MODULO", "1" >>,
      \* print 3 % 7;
      << 29, "OP_MODULO", "3" >>,
      \* print 1 < 2;
      << 30, "OP_LESS", "true" >>,
      \* print 2 < 1;
      << 31, "OP_LESS", "false" >>,
      \* print 2 > 1;
      << 32, "OP_GREATER", "true" >>,
      \* print "a" + "b";
      << 33, "OP_ADD", "ab" >>,
      \* print 5 > 3;
      << 46, "OP_GREATER", "true" >> }

\* The binary expression that source text t prints.
PrintedExpression(t) == Front[t].program[1].expression

\* C20: for `a op b` with a non-commutative operator, lowering pushes a before
\* b, the VM has a under b on the stack when it executes the operator, and the
\* result is the one with a as the left operand: `print 5 > 3;` runs without
\* error and prints true, and `print 5 - 3;` prints 2.
C20_LeftOperandFirst ==
    \A c \in OperandOrderCases :
        /\ Front[c[1]].errors = <<>>
        /\ Compiled[Len(HandPrograms) + c[1]].m_chunk =
               [code |-> << Instruction("OP_CONSTANT", 0), Instruction("OP_CONSTANT", 1),
                            Instruction(c[2], 0), Instruction("OP_PRINT", 0),
                            Instruction("OP_RETURN", 0) >>,
                constants |-> << PrintedExpression(c[1]).left.value,
                                 PrintedExpression(c[1]).right.value >>]
        /\ (phase = "running" /\ vm.m_chunk = CompiledChunk(Len(HandPrograms) + c[1])
                              /\ vm.m_ip = 2) =>
               vm.m_stack = << PrintedExpression(c[1]).left.value,
                               PrintedExpression(c[1]).right.value >>
        /\ RanProgram(Len(HandPrograms) + c[1]) =>
               /\ vmResult = "OK"
               /\ output = << c[3] >>
               /\ (InRunSource => (result = "OK" /\ ~hadError))

\* Compiler::run has run `print 5 > 3;` and printed true.
C20_Witness ==
    /\ InRunSource
    /\ RanProgram(Len(HandPrograms) + 46)
    /\ PrintedExpression(46) = Bin(Num(5), "GREATER", ">", Num(3))
    /\ Source = << PrintStmt(PrintedExpression(46)) >>
    /\ result = "OK"
    /\ ~hadError
    /\ output = << "true" >>


\* The loop start of the OP_LOOP instruction at C++ index i of `code`:
\* IRGenerator::emitLoop writes the operand `code.size() - loopStart` when
\* code.size() is i.
LoopStartOf(code, i) == i - code[i + 1].operand

\* C21: executing the OP_LOOP instruction emitted for `while (c) body`
\* transfers control to the loop start, the first instruction of the code of
\* the condition c.
C21_Original ==
    [][ (/\ phase = "running"
         /\ vm.m_chunk.kind = "compiled"
         /\ vm.m_ip < Len(ChunkOf(vm.m_chunk).code)
         /\ NextInstruction.opcode = "OP_LOOP") =>
            vm'.m_ip = LoopStartOf(ChunkOf(vm.m_chunk).code, vm.m_ip) ]_vars


\* The calls of synchronize in Parser::parse from Parser state p on: for each,
\* the token cursor at the call and at the return.
RECURSIVE synchronizations(_)
synchronizationsAfter(d) ==
    IF d.thrown
    THEN << [from |-> d.m_current, to |-> synchronize(d).m_current] >>
             \o synchronizations(synchronize(d))
    ELSE synchronizations(d)

synchronizations(p) ==
    IF ParserIsAtEnd(p) THEN <<>> ELSE synchronizationsAfter(Parse("declaration", p))

\* The calls of synchronize while each source text is parsed.
Synchronizations ==
    Table([t \in DOMAIN SourceList |-> synchronizations(ParserNew(Tokens[t]))])

\* The token types that start a declaration or a statement.
StatementStarts == {"FN", "LET", "IF", "WHILE", "RETURN", "PRINT"}

\* The source text being compiled, 0 when the Program was given as a syntax tree.
SourceText == IF source > Len(HandPrograms) THEN source - Len(HandPrograms) ELSE 0

\* C22: after a parse error synchronize stops where the last consumed token is
\* ';' or the next token is fn, let, if, while, return, print or the end of
\* input, and it consumes no token that starts a declaration or statement.
C22_Original ==
    SourceText # 0 =>
        \A k \in DOMAIN Synchronizations[SourceText] :
            /\ \/ Tokens[SourceText][Synchronizations[SourceText][k].to].type = "SEMICOLON"
               \/ Tokens[SourceText][Synchronizations[SourceText][k].to + 1].type
                      \in StatementStarts \cup {"EOF_TOKEN"}
            /\ \A i \in (Synchronizations[SourceText][k].from + 1)
                            .. Synchronizations[SourceText][k].to :
                   Tokens[SourceText][i].type \notin StatementStarts


\* The generator after the first k top-level statements of Program p are
\* lowered one after the other from the start of compile, whatever the flag.
Walked(p, k) ==
    compileStatements(beginScope(IRGeneratorNew), SubSeq(ProgramList[p], 1, k), 1)

\* The first top-level statement of Program p whose lowering leaves the error
\* flag set (0 when there is none).
FirstFailing(p) ==
    IF \E k \in DOMAIN ProgramList[p] : Walked(p, k).m_hadError
    THEN CHOOSE k \in DOMAIN ProgramList[p] :
             /\ Walked(p, k).m_hadError
             /\ \A j \in 1..(k - 1) : ~Walked(p, j).m_hadError
    ELSE 0

\* Per Program: the generator after the statements up to the first failing one
\* are lowered, and after all statements are lowered.
WalkedToFailure == Table([p \in Programs |-> Walked(p, FirstFailing(p))])
WalkedToEnd     == Table([p \in Programs |-> Walked(p, Len(ProgramList[p]))])

\* The source texts of SourceList with more than one lowering error or with
\* statements after the failing one: the message compile leaves and the number
\* of OP_PRINT instructions in the chunk.
LoweringErrorCases ==
    { \* { let x = 1; let x = 2; print y; }
      << 49, "Undefined variable: y", 1 >>,
      \* let x = 1; let x = 2; print y;
      << 50, "Variable 'x' already declared in this scope.", 0 >>,
      \* print y + z; print 1;
      << 51, "Undefined variable: z", 1 >> }

\* C23 as stated: once a lowering error is raised the flag stays set, the
\* remaining statements of the program are still lowered, and the message is
\* that of the latest error raised over the whole program.
C23_Original ==
    (source # 0 /\ WalkedToEnd[source].m_hadError) =>
        /\ irgen.m_hadError
        /\ irgen.m_error = WalkedToEnd[source].m_error
        /\ Len(irgen.m_chunk.code) >= Len(WalkedToEnd[source].m_chunk.code)

\* C23, amended: once a lowering error is raised the flag stays set; the rest
\* of the top-level statement in which it was raised is still lowered, but
\* compile returns right after that statement, without lowering the following
\* ones, without endScope and without OP_RETURN; the message is that of the
\* latest error raised in that statement.
C23_ErrorStopsAfterStatement ==
    /\ (source # 0 /\ WalkedToEnd[source].m_hadError) =>
           /\ irgen = WalkedToFailure[source]
           /\ irgen.m_hadError
           /\ irgen.m_scopeDepth >= 1
    /\ \A c \in LoweringErrorCases :
           source = Len(HandPrograms) + c[1] =>
               /\ irgen.m_hadError
               /\ irgen.m_error = c[2]
               /\ Cardinality(InstructionsOf(irgen.m_chunk.code, "OP_PRINT")) = c[3]
               /\ InstructionsOf(irgen.m_chunk.code, "OP_RETURN") = {}

\* compile has returned on `let x = 1; let x = 2; print y;`: the message is the
\* one of the second statement and the third statement was not lowered.
C23_Witness ==
    /\ source = Len(HandPrograms) + 50
    /\ Front[50].program = Source
    /\ FirstFailing(source) = 2
    /\ irgen.m_hadError
    /\ irgen.m_error = "Variable 'x' already declared in this scope."
    /\ WalkedToEnd[source].m_error = "Undefined variable: y"


\* Truthiness as the specification states it: falsey are Nil, the Boolean
\* false and the Number 0; everything else is truthy.
Truthy(value) ==
    ~ \/ value.type = "NIL"
      \/ value.type = "BOOL" /\ ~value.b
      \/ value.type = "NUMBER" /\ value.num = 0

\* The Programs that print one Binary node with operator AND or OR.
LogicalProgramNumbers == 49..(50 + Len(LogicalPrograms))

\* The Binary node Program p prints.
LogicalNode(p) == ProgramList[p][1].expression

\* The code of the left operand of `node` followed by the code of its right
\* operand, lowered at the start of a compile.
OperandsCode(node) ==
    compileExpr(compileExpr(beginScope(IRGeneratorNew), node.left), node.right).m_chunk.code

\* Lowering of AND and OR: the left operand, the right operand, one OP_AND or
\* OP_OR, and no jump anywhere.
LogicalLowering ==
    \A p \in LogicalProgramNumbers :
        /\ LogicalNode(p).op.type \in {"AND", "OR"}
        /\ ~Compiled[p].m_hadError
        /\ Compiled[p].m_chunk.code =
               OperandsCode(LogicalNode(p))
                   \o << Instruction(IF LogicalNode(p).op.type = "AND"
                                     THEN "OP_AND" ELSE "OP_OR", 0),
                         Instruction("OP_PRINT", 0), Instruction("OP_RETURN", 0) >>
        /\ InstructionsOf(Compiled[p].m_chunk.code, "OP_JUMP") = {}
        /\ InstructionsOf(Compiled[p].m_chunk.code, "OP_JUMP_IF_FALSE") = {}

\* C24: AND and OR never short-circuit.  The generator emits the left operand,
\* the right operand and one OP_AND or OP_OR without a jump; the VM pops both
\* operands and pushes one Boolean, the conjunction or disjunction of their
\* truthiness; a runtime error in the right operand occurs whatever the left
\* value is.
C24_NoShortCircuit ==
    [][/\ LogicalLowering
       /\ (phase = "running" /\ NextInstruction.opcode \in {"OP_AND", "OP_OR"}) =>
              /\ vm'.m_stack =
                     Append(Under(2),
                            BoolVal(IF NextInstruction.opcode = "OP_AND"
                                    THEN Truthy(FromTop(2)) /\ Truthy(FromTop(1))
                                    ELSE Truthy(FromTop(2)) \/ Truthy(FromTop(1))))
              /\ vmResult' = "NONE"
              /\ phase' = "running"
       /\ \A p \in {49, 50} :
              (phase' = "idle" /\ vmResult' # "NONE" /\ vm'.m_chunk = CompiledChunk(p)) =>
                  /\ vmResult' = "RUNTIME_ERROR"
                  /\ vm'.m_error = "Division by zero."
                  /\ output' = <<>>]_vars

\* `print 0 && "";` has been run: both operands were pushed, OP_AND popped them
\* and false was printed.
C24_Witness ==
    /\ RanProgram(74)
    /\ LogicalNode(74) = Bin(Num(0), "AND", "&&", Str(""))
    /\ ChunkOf(vm.m_chunk).code[3].opcode = "OP_AND"
    /\ vmResult = "OK"
    /\ output = << "false" >>


\* C25: OP_JUMP_IF_FALSE, OP_NOT, OP_AND and OP_OR treat a value as falsey
\* exactly when it is Nil, the Boolean false or the Number 0; every Text (the
\* empty one too) and every other Number is truthy.
C25_Truthiness ==
    [][phase = "running" =>
        /\ (NextInstruction.opcode = "OP_JUMP_IF_FALSE" /\ Len(vm.m_stack) >= 1) =>
               /\ vm'.m_ip = vm.m_ip + 1
                                 + (IF Truthy(FromTop(1)) THEN 0 ELSE NextInstruction.operand)
               /\ vm'.m_stack = vm.m_stack
        /\ (NextInstruction.opcode = "OP_NOT" /\ Len(vm.m_stack) >= 1) =>
               vm'.m_stack = Append(Under(1), BoolVal(~Truthy(FromTop(1))))
        /\ (NextInstruction.opcode = "OP_AND" /\ Len(vm.m_stack) >= 2) =>
               vm'.m_stack[Len(vm'.m_stack)].b = (Truthy(FromTop(2)) /\ Truthy(FromTop(1)))
        /\ (NextInstruction.opcode = "OP_OR" /\ Len(vm.m_stack) >= 2) =>
               vm'.m_stack[Len(vm'.m_stack)].b = (Truthy(FromTop(2)) \/ Truthy(FromTop(1)))
        /\ \A k \in 1..Len(vm.m_stack) :
               Truthy(vm.m_stack[k]) =
                   \/ vm.m_stack[k].type = "STRING"
                   \/ vm.m_stack[k].type = "BOOL" /\ vm.m_stack[k].b
                   \/ vm.m_stack[k].type = "NUMBER" /\ vm.m_stack[k].num # 0]_vars

\* The chunk that branches on the empty Text has been run: the branch was taken
\* as for a truthy value, and then and end were printed.
C25_Witness ==
    /\ phase = "idle"
    /\ vmResult = "OK"
    /\ ChunkOf(vm.m_chunk).code[2].opcode = "OP_JUMP_IF_FALSE"
    /\ ChunkOf(vm.m_chunk).constants[1] = StrVal("")
    /\ output = << "then", "end" >>


\* The locals of generator g that were declared in its current scope.
LocalsOfScope(g) == SelectSeq(g.m_locals, LAMBDA local : local.depth >= g.m_scopeDepth)

\* The locals of generator g that were declared in a scope around the current one.
LocalsOutside(g) == SelectSeq(g.m_locals, LAMBDA local : local.depth < g.m_scopeDepth)

\* n instructions OP_POP.
PopInstructions(n) == [i \in 1..n |-> Instruction("OP_POP", 0)]

\* C26: endScope decrements the scope depth and removes from the end of the
\* locals list exactly the locals of the scope being closed, with one OP_POP
\* per removed local, leaving the locals of outer scopes in place; at every
\* point of a compile each local's depth is at most the scope depth, and after
\* a successful compile the locals list is empty and the depth is 0.
C26_ScopesBalanced ==
    [][/\ irgen'.m_scopeDepth = irgen.m_scopeDepth - 1 =>
              /\ irgen'.m_locals = LocalsOutside(irgen)
              /\ irgen.m_locals = irgen'.m_locals \o LocalsOfScope(irgen)
              /\ SubSeq(irgen'.m_chunk.code, 1,
                        Len(irgen.m_chunk.code) + Len(LocalsOfScope(irgen)))
                     = irgen.m_chunk.code \o PopInstructions(Len(LocalsOfScope(irgen)))
              /\ Len(irgen'.m_chunk.code) - Len(irgen.m_chunk.code)
                     - Len(LocalsOfScope(irgen)) \in {0, 1}
       /\ \A k \in DOMAIN irgen'.m_locals :
              irgen'.m_locals[k].depth <= irgen'.m_scopeDepth
       /\ irgen'.m_scopeDepth = 0 =>
              /\ irgen'.m_locals = <<>>
              /\ ~irgen'.m_hadError]_vars

\* An inner scope with one local has been closed inside an outer scope with
\* one local: one OP_POP was emitted and the outer local is still there.
C26_Witness ==
    /\ irgen.m_scopeDepth = 1
    /\ Len(irgen.m_locals) = 1
    /\ irgen.m_locals[1].depth = 1
    /\ Len(irgen.m_chunk.code) = 3
    /\ irgen.m_chunk.code[3].opcode = "OP_POP"
    /\ ~irgen.m_hadError


\* The source texts of SourceList that assign to something that is not a bare
\* variable, each followed by `print 4;`.
InvalidTargetTexts ==
    { \* 1 = 2; print 4;
      8,
      \* (a) = 1; print 4;
      52,
      \* f() = 1; print 4;
      53,
      \* a + b = 1; print 4;
      54 }

\* C27: assignment is right-associative, `x = y = v` parses as
\* Assignment(x, Assignment(y, v)); a left-hand side that is not a bare
\* Variable node (a literal, a grouping, a call, a binary expression) raises
\* "Invalid assignment target." and the statement adds no node to the Program.
C27_AssignmentTarget ==
    /\ Front[44] = Parsed(<< ExpressionStmt(AssignExpr("x", AssignExpr("y",
                                Bin(Num(1), "PLUS", "+", Num(2))))) >>, <<>>)
    /\ \A t \in InvalidTargetTexts :
           Front[t] = Parsed(<< PrintStmt(Num(4)) >>,
                             << "[Line 1] Parse Error: Invalid assignment target." >>)
    /\ SourceText \in InvalidTargetTexts \cup {44} =>
           /\ Source = Front[SourceText].program
           /\ RanProgram(source) =>
                   output = IF SourceText = 44 THEN <<>> ELSE << "4" >>

\* `(a) = 1; print 4;` has been compiled and run: the Program holds only the
\* print statement.
C27_Witness ==
    /\ SourceText = 52
    /\ Front[52].errors = << "[Line 1] Parse Error: Invalid assignment target." >>
    /\ Source = << PrintStmt(Num(4)) >>
    /\ RanProgram(source)
    /\ output = << "4" >>


\* C28: on one Compiler, after any sequence of run(source), compile(source)
\* and run(chunk) calls, hadError() is true exactly when the most recent call
\* failed: a compile error for compile, a compile error or a result other than
\* OK for the two run overloads.
C28_Original ==
    [][/\ (phase = "idle" /\ phase' = "idle") =>
              (hadError' <=> CompileError(script) # "")
       /\ (phase = "running" /\ phase' = "idle") =>
              (hadError' <=> vmResult' # "OK")]_vars


\* The tokens the sequences handed to the Parser directly are made of.
ParseAlphabet ==
    { Token("PRINT", "print", 1, 1, NilVal), Token("NUMBER", "1", 1, 1, NumVal(1, 1)),
      Token("SEMICOLON", ";", 1, 1, NilVal), Token("RIGHT_PAREN", ")", 1, 1, NilVal),
      Token("LEFT_BRACE", "{", 1, 1, NilVal), Token("EQUAL", "=", 1, 1, NilVal) }

\* Every sequence of at most MaxTokens tokens, closed by the end-of-input token.
TokenStrings ==
    { string \o << Token("EOF_TOKEN", "", 1, 1, NilVal) >> :
          string \in UNION { [1..n -> ParseAlphabet] : n \in 0..MaxTokens } }

\* The token cursor at the start of each iteration of the loop of Parser::parse
\* and when the loop is left, for at most `fuel` iterations.
RECURSIVE parseCursors(_, _)
parseCursors(p, fuel) ==
    IF ParserIsAtEnd(p) \/ fuel = 0
    THEN << p.m_current >>
    ELSE << p.m_current >> \o parseCursors(caught(Parse("declaration", p)), fuel - 1)

\* The cursors of parse on `tokens`, followed for one iteration per token.
CursorsOf(tokens) == parseCursors(ParserNew(tokens), Len(tokens))

\* The cursor at which isAtEnd is true: the C++ index of the first
\* end-of-input token (tokenize appends a second one to a text that ends in
\* white space or a comment).
EndOfInput(tokens) ==
    (CHOOSE k \in DOMAIN tokens :
         /\ tokens[k].type = "EOF_TOKEN"
         /\ \A j \in 1..(k - 1) : tokens[j].type # "EOF_TOKEN") - 1

\* Each iteration moves the cursor forward, the cursor stays at or before the
\* end-of-input token, and the loop is left at that token; when the first token
\* is the end of input no iteration runs, so nothing is asked of the cursor 0.
Progresses(tokens, cursors) ==
    /\ cursors[1] = 0
    /\ \A k \in 1..(Len(cursors) - 1) : cursors[k] < cursors[k + 1]
    /\ \A k \in DOMAIN cursors : cursors[k] <= EndOfInput(tokens)
    /\ cursors[Len(cursors)] = EndOfInput(tokens)
    /\ tokens[1].type = "EOF_TOKEN" => cursors = << 0 >>

\* Parser::parse makes progress on every token sequence of TokenStrings.
ParseTerminates == \A tokens \in TokenStrings : Progresses(tokens, CursorsOf(tokens))

KindsAndLexemes(tokens) == [k \in DOMAIN tokens |-> << tokens[k].type, tokens[k].lexeme >>]

\* The positions of a text inside a // comment: from // up to, not including,
\* the end of its line.  (No text of SourceList has // inside a string.)
InComment(text, i) ==
    \E j \in 1..i :
        /\ j < Len(text)
        /\ text[j] = "/"
        /\ text[j + 1] = "/"
        /\ \A k \in j..i : text[k] # "\n"

\* The characters of a text at the positions of kept, in their order.
Kept(text, kept) ==
    [n \in 1..Cardinality(kept) |->
        text[CHOOSE i \in kept : Cardinality({ j \in kept : j <= i }) = n]]

\* A text with each // comment removed.
withoutComments(text) ==
    IF \A i \in DOMAIN text : ~InComment(text, i) THEN text
    ELSE Kept(text, { i \in DOMAIN text : ~InComment(text, i) })

\* Lexer::tokenize of each source text with its comments removed.
UncommentedTokens ==
    Table([t \in DOMAIN SourceList |-> tokenize(withoutComments(SourceList[t]))])

\* The source texts that hold a comment.
CommentTexts == { t \in DOMAIN SourceList : withoutComments(SourceList[t]) # SourceList[t] }

\* C30: for the source text being run, Lexer::tokenize returns the same
\* sequence of token kinds and lexemes as for the same text with each //
\* comment removed.
C30_Original ==
    SourceText # 0 =>
        KindsAndLexemes(Tokens[SourceText]) = KindsAndLexemes(UncommentedTokens[SourceText])

=============================================================================
